---- MODULE Spec2Model ----
(***************************************************************************)
(* Flow task dashboard (src/app.py): the Task / TaskUpdate / Category /    *)
(* RequestRC entity model, its JSON-file and spreadsheet-row encodings and *)
(* the DataManager persistence gateway.                                    *)
(*                                                                         *)
(* Text is modelled as a sequence of one-character strings, so that the    *)
(* sanitisation (html.unescape, re.sub, str.strip), the list encoding      *)
(* (str(list)) and its decoding (ast.literal_eval / eval) are computed     *)
(* character by character.  A Python value is a record [k, v] whose tag k  *)
(* is one of "str", "int", "list", "none", "date", "atom"; an "atom" is a  *)
(* non-numeric text taken from a fixed vocabulary whose characters no code *)
(* path inspects (status, priority, category names, descriptions).         *)
(***************************************************************************)
EXTENDS Integers, Sequences, FiniteSets, TLC

VARIABLES
    arg,          \* input of the operation under examination
    ret,          \* what the last operation returned to its caller
    pc,           \* position of the examined call: "ready" or "done"
    today,        \* datetime.now() as <<year, month, day>>
    clock,        \* int(time.time() * 1000)
    use_sheets,   \* DataManager.use_sheets
    current_user, \* st.session_state.current_user ("" while the key is unset)
    data_manager, \* st.session_state.data_manager: the gateway's paths
    tasks,        \* st.session_state.tasks
    categories,   \* st.session_state.categories
    requests,     \* st.session_state.requests
    files,        \* local JSON stores, by path
    sheets,       \* remote worksheets, by name: rows of cells
    ui_errors,    \* st.error messages shown by the last handler
    editing_task_id \* st.session_state.editing_task_id (0 is None)

vars == <<arg, ret, pc, today, clock, use_sheets, current_user, data_manager,
          tasks, categories, requests, files, sheets, ui_errors, editing_task_id>>

-----------------------------------------------------------------------------
(* Bounds *)

MaxTitleToks == 3
MaxCollabs == 2
MaxTasks == 1
MaxClock == 2

-----------------------------------------------------------------------------
(* Python values *)

PStr(cs) == [k |-> "str", v |-> cs]
PInt(n) == [k |-> "int", v |-> n]
PList(xs) == [k |-> "list", v |-> xs]
PAtom(a) == [k |-> "atom", v |-> a]
PDate(ymd) == [k |-> "date", v |-> ymd]
PNone == [k |-> "none", v |-> 0]

DigitSeq == <<"0", "1", "2", "3", "4", "5", "6", "7", "8", "9">>
Digits == {DigitSeq[i] : i \in 1..10}
DigitChar(n) == DigitSeq[n + 1]
DigitVal(c) == CHOOSE n \in 0..9 : DigitSeq[n + 1] = c

RECURSIVE IntToChars(_)
IntToChars(n) ==
    IF n < 10 THEN <<DigitChar(n)>>
    ELSE IntToChars(n \div 10) \o <<DigitChar(n % 10)>>

RECURSIVE CharsToInt(_)
CharsToInt(cs) ==
    IF cs = <<>> THEN 0
    ELSE 10 * CharsToInt(SubSeq(cs, 1, Len(cs) - 1)) + DigitVal(cs[Len(cs)])

Drop(s, n) == SubSeq(s, n + 1, Len(s))
HasPrefix(s, p) == Len(s) >= Len(p) /\ SubSeq(s, 1, Len(p)) = p

RECURSIVE Flatten(_)
Flatten(ss) == IF ss = <<>> THEN <<>> ELSE Head(ss) \o Flatten(Tail(ss))

\* bool(x)
Truthy(x) ==
    CASE x.k = "str"  -> x.v # <<>>
      [] x.k = "int"  -> x.v # 0
      [] x.k = "list" -> x.v # <<>>
      [] x.k = "none" -> FALSE
      [] OTHER        -> TRUE

\* repr(str): single quotes unless the text holds a single quote and no
\* double quote (the texts here hold no double quote and no backslash)
StrRepr(cs) ==
    LET q == IF \E i \in 1..Len(cs) : cs[i] = "'" THEN "\"" ELSE "'"
    IN <<q>> \o cs \o <<q>>

RECURSIVE PyRepr(_)
RECURSIVE ReprJoin(_)
ReprJoin(xs) ==
    IF xs = <<>> THEN <<>>
    ELSE IF Len(xs) = 1 THEN PyRepr(xs[1])
    ELSE PyRepr(xs[1]) \o <<",", " ">> \o ReprJoin(Tail(xs))

PyRepr(x) ==
    CASE x.k = "str"  -> StrRepr(x.v)
      [] x.k = "int"  -> IntToChars(x.v)
      [] x.k = "list" -> <<"[">> \o ReprJoin(x.v) \o <<"]">>
      [] x.k = "none" -> <<"N", "o", "n", "e">>
      [] OTHER        -> <<"?">>

\* str(x)
PyStr(x) == IF x.k = "str" THEN x.v ELSE PyRepr(x)

-----------------------------------------------------------------------------
(* html.unescape, re.sub(r'<[^>]*>', '', s), str.strip *)

EntLt == <<"&", "l", "t", ";">>
EntGt == <<"&", "g", "t", ";">>
EntAmp == <<"&", "a", "m", "p", ";">>

\* one left-to-right pass; the entity table is cut down to the three named
\* references the examined texts can hold
RECURSIVE html_unescape(_)
html_unescape(s) ==
    IF s = <<>> THEN <<>>
    ELSE IF HasPrefix(s, EntLt) THEN <<"<">> \o html_unescape(Drop(s, 4))
    ELSE IF HasPrefix(s, EntGt) THEN <<">">> \o html_unescape(Drop(s, 4))
    ELSE IF HasPrefix(s, EntAmp) THEN <<"&">> \o html_unescape(Drop(s, 5))
    ELSE <<Head(s)>> \o html_unescape(Tail(s))

\* leftmost non-overlapping matches of <[^>]*> are deleted
RECURSIVE re_sub_tags(_)
re_sub_tags(s) ==
    IF s = <<>> THEN <<>>
    ELSE IF Head(s) = "<" /\ \E j \in 2..Len(s) : s[j] = ">"
         THEN LET j == CHOOSE j \in 2..Len(s) :
                           s[j] = ">" /\ \A i \in 2..(j - 1) : s[i] # ">"
              IN re_sub_tags(Drop(s, j))
    ELSE <<Head(s)>> \o re_sub_tags(Tail(s))

RECURSIVE lstrip(_)
lstrip(s) == IF s # <<>> /\ Head(s) = " " THEN lstrip(Tail(s)) ELSE s

RECURSIVE rstrip(_)
rstrip(s) ==
    IF s # <<>> /\ s[Len(s)] = " " THEN rstrip(SubSeq(s, 1, Len(s) - 1)) ELSE s

strip(s) == rstrip(lstrip(s))

\* mutant: tags are removed before the entities are decoded
clean_val_TagsFirst(text) ==
    IF ~Truthy(text) THEN <<>>
    ELSE strip(html_unescape(re_sub_tags(PyStr(text))))

clean_val(text) ==
    IF ~Truthy(text) THEN <<>>
    ELSE strip(re_sub_tags(html_unescape(PyStr(text))))

-----------------------------------------------------------------------------
(* ast.literal_eval / eval on the texts a cell or a field can hold: lists,   *)
(* quoted strings and decimal integers; any other text raises.               *)

ParseFail == [ok |-> FALSE, val |-> PNone, nxt |-> 0]

RECURSIVE SkipSp(_, _)
SkipSp(s, i) == IF i <= Len(s) /\ s[i] = " " THEN SkipSp(s, i + 1) ELSE i

RECURSIVE DigitRunEnd(_, _)
DigitRunEnd(s, i) ==
    IF i < Len(s) /\ s[i + 1] \in Digits THEN DigitRunEnd(s, i + 1) ELSE i

RECURSIVE ParseValue(_, _)
RECURSIVE ParseItems(_, _, _)

\* after an item r and the blanks behind it: a comma, the closing bracket
ParseItemsSep(s, j, r, acc) ==
    IF j > Len(s) THEN ParseFail
    ELSE IF s[j] = "," THEN ParseItems(s, j + 1, Append(acc, r.val))
    ELSE IF s[j] = "]"
         THEN [ok |-> TRUE, val |-> PList(Append(acc, r.val)), nxt |-> j + 1]
    ELSE ParseFail

ParseItemsAfter(s, r, acc) ==
    IF ~r.ok THEN ParseFail ELSE ParseItemsSep(s, SkipSp(s, r.nxt), r, acc)

ParseItemsAt(s, i, acc) ==
    IF i > Len(s) THEN ParseFail
    ELSE IF s[i] = "]" THEN [ok |-> TRUE, val |-> PList(acc), nxt |-> i + 1]
    ELSE ParseItemsAfter(s, ParseValue(s, i), acc)

ParseItems(s, i0, acc) == ParseItemsAt(s, SkipSp(s, i0), acc)

\* a run of digits starting at i: a leading zero is allowed on zero only
ParseDigits(txt, i) ==
    IF Len(txt) > 1 /\ txt[1] = "0" /\ \E m \in 1..Len(txt) : txt[m] # "0"
    THEN ParseFail
    ELSE [ok |-> TRUE, val |-> PInt(CharsToInt(txt)), nxt |-> i + Len(txt)]

ParseValueAt(s, i) ==
    IF i > Len(s) THEN ParseFail
    ELSE IF s[i] \in {"'", "\""}
         THEN IF \E j \in (i + 1)..Len(s) : s[j] = s[i]
              THEN LET j == CHOOSE j \in (i + 1)..Len(s) :
                                s[j] = s[i] /\ \A m \in (i + 1)..(j - 1) : s[m] # s[i]
                   IN [ok |-> TRUE, val |-> PStr(SubSeq(s, i + 1, j - 1)), nxt |-> j + 1]
              ELSE ParseFail
    ELSE IF s[i] \in Digits THEN ParseDigits(SubSeq(s, i, DigitRunEnd(s, i)), i)
    ELSE IF s[i] = "[" THEN ParseItems(s, i + 1, <<>>)
    ELSE ParseFail

ParseValue(s, i0) == ParseValueAt(s, SkipSp(s, i0))

\* the whole text must be one value
WholeText(s, r) == IF r.ok /\ SkipSp(s, r.nxt) > Len(s) THEN r ELSE ParseFail

literal_eval(s) == WholeText(s, ParseValue(s, 1))

-----------------------------------------------------------------------------
(* Task *)

Raise(e) == [exc |-> e]
Ok(t) == [exc |-> "none", task |-> t]

Pad2(n) == IF n < 10 THEN <<"0">> \o IntToChars(n) ELSE IntToChars(n)

\* date.strftime("%Y-%m-%d")
strftime(ymd) == IntToChars(ymd[1]) \o <<"-">> \o Pad2(ymd[2]) \o <<"-">> \o Pad2(ymd[3])

\* one element of the list comprehension of Task.__post_init__
KeepClean(c) == IF c # <<>> THEN <<PStr(c)>> ELSE <<>>

\* the list comprehension of Task.__post_init__
RECURSIVE CleanList(_)
CleanList(xs) ==
    IF xs = <<>> THEN <<>>
    ELSE KeepClean(clean_val(Head(xs))) \o CleanList(Tail(xs))

\* the value of a parse, [] when it raised
ValueOrEmpty(r) == IF r.ok THEN r.val ELSE PList(<<>>)

\* the collaborators a string argument becomes
CollabsOfText(cs) ==
    IF cs = <<>> THEN PList(<<>>) ELSE ValueOrEmpty(literal_eval(cs))

\* the steps of __post_init__ on due_date and collaborators
DueOf(d) == IF d.k = "date" THEN PStr(strftime(d.v)) ELSE d
NoneToList(c) == IF c.k = "none" THEN PList(<<>>) ELSE c
TextToList(c) == IF c.k = "str" THEN CollabsOfText(c.v) ELSE c
CleanedList(c) == IF Truthy(c) /\ c.k = "list" THEN PList(CleanList(c.v)) ELSE c

\* __post_init__ after the title check: normalisation and sanitisation
TaskBuilt(a) ==
    Ok([title |-> clean_val(a.title),
        responsible |-> a.responsible,
        category |-> a.category,
        priority |-> a.priority,
        status |-> a.status,
        due_date |-> DueOf(a.due_date),
        description |-> a.description,
        attachments |-> a.attachments,
        collaborators |-> CleanedList(TextToList(NoneToList(a.collaborators))),
        manager_feedback |-> a.manager_feedback,
        id |-> a.id,
        created_at |-> a.created_at])

\* mutant: the whitespace test of the title is dropped
Task_post_init_NoStrip(a) ==
    IF ~Truthy(a.title) THEN Raise("ValueError")
    ELSE IF a.title.k # "str" THEN Raise("AttributeError")
    ELSE TaskBuilt(a)

\* the dataclass constructor followed by __post_init__; a holds every field
Task_post_init(a) ==
    IF ~Truthy(a.title) THEN Raise("ValueError")
    ELSE IF a.title.k # "str" THEN Raise("AttributeError")
    ELSE IF strip(a.title.v) = <<>> THEN Raise("ValueError")
    ELSE TaskBuilt(a)

\* dict.get(key, default)
Get(d, key, default) == IF key \in DOMAIN d THEN d[key] ELSE default

Task_from_dict(data, now, ms) ==
    Task_post_init(
      [title |-> Get(data, "title", PStr(<<>>)),
       responsible |-> Get(data, "responsible", PAtom("Maicon")),
       category |-> Get(data, "category", PAtom("Outros")),
       priority |-> Get(data, "priority", PAtom("Média")),
       status |-> Get(data, "status", PAtom("Pendente")),
       due_date |-> Get(data, "dueDate", PStr(strftime(now))),
       description |-> Get(data, "description", PStr(<<>>)),
       attachments |-> Get(data, "attachments", PList(<<>>)),
       collaborators |-> TextToList(Get(data, "collaborators", PList(<<>>))),
       id |-> Get(data, "id", PInt(ms)),
       created_at |-> Get(data, "createdAt", PStr(strftime(now))),
       manager_feedback |-> Get(data, "manager_feedback", PStr(<<>>))])

\* keys of Task.to_dict in order: asdict order, with due_date and created_at
\* popped and re-inserted at the end under their new names
TaskDictKeys ==
    <<"title", "responsible", "category", "priority", "status", "description",
      "attachments", "collaborators", "manager_feedback", "id", "dueDate",
      "createdAt">>

Task_to_dict(t) ==
    [title |-> PStr(t.title),
     responsible |-> t.responsible,
     category |-> t.category,
     priority |-> t.priority,
     status |-> t.status,
     description |-> t.description,
     attachments |-> t.attachments,
     collaborators |-> IF t.collaborators.k = "list"
                       THEN PStr(PyRepr(t.collaborators))
                       ELSE t.collaborators,
     manager_feedback |-> t.manager_feedback,
     id |-> t.id,
     dueDate |-> t.due_date,
     createdAt |-> t.created_at]

-----------------------------------------------------------------------------
(* json.dump / json.load: a file holds absent, unparseable or JSON content *)

RECURSIVE JsonDump(_)
JsonDump(x) ==
    CASE x.k \in {"str", "atom"} -> [k |-> "string", v |-> x]
      [] x.k = "int"  -> [k |-> "number", v |-> x.v]
      [] x.k = "list" -> [k |-> "array", v |-> [i \in 1..Len(x.v) |-> JsonDump(x.v[i])]]
      [] OTHER        -> [k |-> "null", v |-> 0]

RECURSIVE JsonLoad(_)
JsonLoad(j) ==
    CASE j.k = "string" -> j.v
      [] j.k = "number" -> PInt(j.v)
      [] j.k = "array"  -> PList([i \in 1..Len(j.v) |-> JsonLoad(j.v[i])])
      [] OTHER          -> PNone

\* a dict with string keys, and a list of such dicts
JsonObject(d) == [k |-> "object", v |-> [key \in DOMAIN d |-> JsonDump(d[key])]]
JsonObjects(ds) == [k |-> "array", v |-> [i \in 1..Len(ds) |-> JsonObject(ds[i])]]
DictOfJson(j) == [key \in DOMAIN j.v |-> JsonLoad(j.v[key])]

FileAbsent == [k |-> "absent", v |-> <<>>]
FileGarbage == [k |-> "garbage", v |-> <<>>]
FileJson(j) == [k |-> "json", v |-> j]

DefaultUser == "2949400"
Managers == {"GESTAO", "2484901"}
OrdinaryUsers == {"2858700"}
Suffixes == {""} \cup OrdinaryUsers \cup Managers
StoreKinds == {"flow_data", "flow_updates", "flow_categories", "flow_requests"}
AllPaths == StoreKinds \X Suffixes
Worksheets == {"Tasks", "Updates", "Categories", "Requests"}

\* DataManager.__init__: the paths of the identity
StorePath(kind, user) == <<kind, IF user = DefaultUser THEN "" ELSE user>>

\* st.session_state.get("current_user", "2949400")
UserOr(user) == IF user = "" THEN DefaultUser ELSE user

\* DataManager.__init__ with the session's current_user (file_path not given)
DataManager_init(user) ==
    [user_id |-> UserOr(user),
     file_path |-> StorePath("flow_data", UserOr(user)),
     updates_path |-> StorePath("flow_updates", UserOr(user)),
     categories_path |-> StorePath("flow_categories", UserOr(user)),
     requests_path |-> StorePath("flow_requests", UserOr(user))]

\* "data_manager" not in st.session_state
NoManager ==
    [user_id |-> "", file_path |-> <<"", "">>, updates_path |-> <<"", "">>,
     categories_path |-> <<"", "">>, requests_path |-> <<"", "">>]

-----------------------------------------------------------------------------
(* DataManager: tasks, local files *)

\* [t.to_dict() for t in tasks]
TaskDicts(ts) == [i \in 1..Len(ts) |-> Task_to_dict(ts[i])]

\* mutant: an empty collection is not written
save_tasks_local_SkipEmpty(fs, path, ts, fault) ==
    IF fault = "none"
    THEN [ok |-> TRUE, err |-> 0,
          files |-> IF ts = <<>> THEN fs
                    ELSE [fs EXCEPT ![path] = FileJson(JsonObjects(TaskDicts(ts)))]]
    ELSE IF fault = "open"
    THEN [ok |-> FALSE, err |-> 1, files |-> fs]
    ELSE [ok |-> FALSE, err |-> 1, files |-> [fs EXCEPT ![path] = FileGarbage]]

\* fault: "none", "open" (open() raises, the file is untouched) or "write"
\* (json.dump raises after open() truncated the file)
save_tasks_local(fs, path, ts, fault) ==
    IF fault = "none"
    THEN [ok |-> TRUE, err |-> 0,
          files |-> [fs EXCEPT ![path] = FileJson(JsonObjects(TaskDicts(ts)))]]
    ELSE IF fault = "open"
    THEN [ok |-> FALSE, err |-> 1, files |-> fs]
    ELSE [ok |-> FALSE, err |-> 1, files |-> [fs EXCEPT ![path] = FileGarbage]]

SeedTitle ==
    <<"E", "x", "e", "m", "p", "l", "o", " ", "d", "e", " ", "T", "a", "r", "e",
      "f", "a">>

\* _create_initial_data without its save
InitialTasks(now, ms) ==
    <<Task_post_init(
        [title |-> PStr(SeedTitle), responsible |-> PAtom("Maicon"),
         category |-> PAtom("Outros"), priority |-> PAtom("Média"),
         status |-> PAtom("Pendente"), due_date |-> PStr(strftime(now)),
         description |-> PStr(<<>>), attachments |-> PList(<<>>),
         collaborators |-> PList(<<>>), manager_feedback |-> PStr(<<>>),
         id |-> PInt(ms), created_at |-> PStr(strftime(now))]).task>>

\* mutant: the handler lets the exception through
TryExcept_Reraise(body, fallback) ==
    IF body.exc = "none"
    THEN [raised |-> "none", exc |-> "none", val |-> body.val]
    ELSE [raised |-> body.exc, exc |-> body.exc, val |-> fallback]

\* try: <body> except: return <fallback>.  body is [exc, val]; the result
\* names the exception that leaves the function (raised), the one the
\* handler caught (exc) and the value returned
TryExcept(body, fallback) ==
    IF body.exc = "none"
    THEN [raised |-> "none", exc |-> "none", val |-> body.val]
    ELSE [raised |-> "none", exc |-> body.exc, val |-> fallback]

\* with open(path) as f: data = json.load(f), then iteration over data:
\* fault "open" is an OSError of open()
ReadItems(content, fault) ==
    IF fault = "open" THEN [exc |-> "OSError", val |-> <<>>]
    ELSE IF content.k # "json" THEN [exc |-> "JSONDecodeError", val |-> <<>>]
    ELSE IF content.v.k # "array" THEN [exc |-> "TypeError", val |-> <<>>]
    ELSE [exc |-> "none", val |-> content.v.v]

\* [Task.from_dict(item) for item in data]: the results, in order
ItemResults(items, now, ms) ==
    [i \in 1..Len(items) |->
        IF items[i].k = "object"
        THEN Task_from_dict(DictOfJson(items[i]), now, ms)
        ELSE Raise("AttributeError")]

AllOk(rs) == \A i \in 1..Len(rs) : rs[i].exc = "none"
TasksOf(rs) == [i \in 1..Len(rs) |-> rs[i].task]
ValsOf(rs) == [i \in 1..Len(rs) |-> rs[i].val]
FirstExc(rs) == rs[CHOOSE i \in 1..Len(rs) :
                     rs[i].exc # "none" /\ \A j \in 1..(i - 1) : rs[j].exc = "none"].exc

\* a comprehension over constructor calls: the first exception ends it
CollectTasks(rs) ==
    IF AllOk(rs) THEN [exc |-> "none", val |-> TasksOf(rs)]
    ELSE [exc |-> FirstExc(rs), val |-> <<>>]
CollectVals(rs) ==
    IF AllOk(rs) THEN [exc |-> "none", val |-> ValsOf(rs)]
    ELSE [exc |-> FirstExc(rs), val |-> <<>>]

TasksOfItems(items, now, ms) ==
    IF items.exc # "none" THEN [exc |-> items.exc, val |-> <<>>]
    ELSE CollectTasks(ItemResults(items.val, now, ms))

LoadTasksLocalBody(content, now, ms, fault) ==
    TasksOfItems(ReadItems(content, fault), now, ms)

\* what _create_initial_data returns, and the outcome sv of its save
SeedResult(ts, sv) ==
    [raised |-> "none", exc |-> "none", val |-> ts, err |-> sv.err, files |-> sv.files]
\* mutant: the seed tasks are returned without being saved
create_initial_data_NoSave(fs, path, ts, fault) ==
    SeedResult(ts, [ok |-> TRUE, err |-> 0, files |-> fs])

\* _create_initial_data: the seed tasks are saved and returned
create_initial_data(fs, path, ts, fault) ==
    SeedResult(ts, save_tasks_local(fs, path, ts, fault))

\* except Exception as e: st.error(...); return []
ShownResult(r, fs) ==
    [raised |-> r.raised, exc |-> r.exc, val |-> r.val,
     err |-> IF r.exc = "none" THEN 0 ELSE 1, files |-> fs]

\* the non-manager branch of load_tasks on local files; fault applies to the
\* one file access the call makes
load_tasks_local(fs, path, now, ms, fault) ==
    IF fs[path].k = "absent"
    THEN create_initial_data(fs, path, InitialTasks(now, ms), fault)
    ELSE ShownResult(TryExcept(LoadTasksLocalBody(fs[path], now, ms, fault), <<>>), fs)

\* the tasks before the first item that raises: what the loop appended
RECURSIVE OkPrefix(_)
OkPrefix(rs) ==
    IF rs = <<>> \/ Head(rs).exc # "none" THEN <<>>
    ELSE <<Head(rs).task>> \o OkPrefix(Tail(rs))

\* if t.id not in seen_ids: all_tasks.append(t)
RECURSIVE AppendUnseen(_, _)
AppendUnseen(all, ts) ==
    IF ts = <<>> THEN all
    ELSE AppendUnseen(
            IF \E i \in 1..Len(all) : all[i].id = Head(ts).id THEN all
            ELSE Append(all, Head(ts)),
            Tail(ts))

\* what one file of the listing contributes
PrefixOfItems(items, now, ms) ==
    IF items.exc # "none" THEN <<>> ELSE OkPrefix(ItemResults(items.val, now, ms))
TasksOfFile(c, now, ms) ==
    IF c.k = "absent" THEN <<>> ELSE PrefixOfItems(ReadItems(c, "none"), now, ms)

\* the manager branch of load_tasks: flow_data.json first, then the per-user
\* files in the order os.listdir gave (order), each under its own
\* try/except: pass
RECURSIVE LoadAllFiles(_, _, _, _, _)
LoadAllFiles(fs, order, all, now, ms) ==
    IF order = <<>> THEN all
    ELSE LoadAllFiles(fs, Tail(order),
                      AppendUnseen(all, TasksOfFile(fs[Head(order)], now, ms)), now, ms)

\* some file of the listing is unreadable or holds an item that raises
ItemsFail(items, now, ms) ==
    items.exc # "none" \/ ~AllOk(ItemResults(items.val, now, ms))
AnyFileFails(fs, order, now, ms) ==
    \E i \in 1..Len(order) :
        fs[order[i]].k # "absent" /\ ItemsFail(ReadItems(fs[order[i]], "none"), now, ms)

\* the per-user task files, in the order os.listdir gives them
ListedFiles(fs) == {p \in AllPaths : p[1] = "flow_data" /\ p[2] # "" /\ fs[p].k # "absent"}
Orderings(S) ==
    {q \in [1..Cardinality(S) -> S] : \A i, j \in 1..Cardinality(S) : i # j => q[i] # q[j]}

load_tasks_manager(fs, order, now, ms) ==
    [raised |-> "none",
     exc |-> IF AnyFileFails(fs, order, now, ms) THEN "Exception" ELSE "none",
     val |-> LoadAllFiles(fs, order, <<>>, now, ms), err |-> 0, files |-> fs]

-----------------------------------------------------------------------------
(* The worksheet as gspread shows it: rows of cells.  append_row stores a    *)
(* text as text and an int as a number; get_all_records pads every row to   *)
(* the widest one, takes row 1 as the keys (which must be unique) and turns  *)
(* every numeric text into a number.                                         *)

Max(a, b) == IF a >= b THEN a ELSE b

RECURSIVE MaxLen(_)
MaxLen(rows) == IF rows = <<>> THEN 0 ELSE Max(Len(Head(rows)), MaxLen(Tail(rows)))

BlankCell == PStr(<<>>)
PadRow(row, w) == [i \in 1..w |-> IF i <= Len(row) THEN row[i] ELSE BlankCell]

\* the key a header cell gives: its text, "" for a blank cell
HeaderKey(cell) == IF cell.k = "atom" THEN cell.v ELSE ""

numericise(cell) ==
    IF cell.k = "str" /\ cell.v # <<>> /\ \A i \in 1..Len(cell.v) : cell.v[i] \in Digits
    THEN PInt(CharsToInt(cell.v))
    ELSE cell

RecordsKeyed(rows, w, keys) ==
    IF \E i, j \in 1..w : i # j /\ keys[i] = keys[j]
    THEN [exc |-> "GSpreadException", val |-> <<>>]
    ELSE [exc |-> "none",
          val |-> [n \in 1..(Len(rows) - 1) |->
                     [key \in {keys[i] : i \in 1..w} |->
                        numericise(PadRow(rows[n + 1], w)[CHOOSE i \in 1..w : keys[i] = key])]]]

RecordsPadded(rows, w) ==
    RecordsKeyed(rows, w, [i \in 1..w |-> HeaderKey(PadRow(rows[1], w)[i])])

get_all_records(rows) ==
    IF rows = <<>> THEN [exc |-> "none", val |-> <<>>]
    ELSE RecordsPadded(rows, MaxLen(rows))

\* what a value becomes as a cell: None leaves the cell blank
CellOf(x) == IF x.k = "none" THEN BlankCell ELSE x

\* list(d.values()) of a dict whose keys come in the order ks
ValuesRow(d, ks) == [i \in 1..Len(ks) |-> CellOf(d[ks[i]])]
HeaderRow(ks) == [i \in 1..Len(ks) |-> PAtom(ks[i])]

\* ws.clear(); ws.append_row(header); ws.append_rows(rows), cut short by an
\* API error: fault is "none", "connect" (nothing written), "clear" (the
\* error follows the clear) or "header" (it follows the header row)
WriteSheet(sh, name, header, rows, fault) ==
    IF fault = "connect" THEN sh
    ELSE IF fault = "clear" THEN [sh EXCEPT ![name] = <<>>]
    ELSE IF fault = "header" THEN [sh EXCEPT ![name] = <<header>>]
    ELSE [sh EXCEPT ![name] = <<header>> \o rows]

-----------------------------------------------------------------------------
(* DataManager: tasks, spreadsheet *)

\* new_item['attachments'] = str(new_item['attachments'])
FormatTaskDict(d) == [d EXCEPT !.attachments = PStr(PyStr(d.attachments))]

\* the three shapes of a save on a worksheet
SaveSheet(sh, name, header, rows, fault, err) ==
    IF fault # "none"
    THEN [ok |-> FALSE, err |-> err,
          sheets |-> WriteSheet(sh, name, header, rows,
                                IF rows = <<>> /\ fault = "header" THEN "clear" ELSE fault)]
    ELSE IF rows = <<>>
    THEN [ok |-> TRUE, err |-> 0, sheets |-> [sh EXCEPT ![name] = <<>>]]
    ELSE [ok |-> TRUE, err |-> 0, sheets |-> WriteSheet(sh, name, header, rows, "none")]

TaskRows(ts) ==
    [i \in 1..Len(ts) |-> ValuesRow(FormatTaskDict(Task_to_dict(ts[i])), TaskDictKeys)]

save_tasks_sheets(sh, ts, fault) ==
    SaveSheet(sh, "Tasks", HeaderRow(TaskDictKeys), TaskRows(ts), fault, 1)

\* r['attachments'] = eval(r['attachments']), [] when eval raises
EvalAttachments(r) ==
    IF "attachments" \in DOMAIN r /\ r.attachments.k = "str"
    THEN [r EXCEPT !.attachments = ValueOrEmpty(literal_eval(r.attachments.v))]
    ELSE r

RowResults(rows, now, ms) ==
    [i \in 1..Len(rows) |-> Task_from_dict(EvalAttachments(rows[i]), now, ms)]

TasksOfRecords(recs, now, ms) ==
    IF recs.exc # "none" THEN [exc |-> recs.exc, val |-> <<>>]
    ELSE CollectTasks(RowResults(SelectSeq(recs.val, LAMBDA r : "id" \in DOMAIN r), now, ms))

\* the body of the try of the spreadsheet branch of load_tasks
LoadTasksSheetsBody(sh, now, ms, fault) ==
    IF fault # "none" THEN [exc |-> "APIError", val |-> <<>>]
    ELSE TasksOfRecords(get_all_records(sh["Tasks"]), now, ms)

load_tasks_sheets(sh, now, ms, fault) ==
    TryExcept(LoadTasksSheetsBody(sh, now, ms, fault), <<>>)

-----------------------------------------------------------------------------
(* RequestRC and its gateway operations *)

RequestKeys ==
    <<"subelement", "date_opening", "description", "rc_code", "buyer",
      "situation", "attachments", "po_number", "nf_tracking", "nf_attachments",
      "id", "created_at">>

KeySet(ks) == {ks[i] : i \in 1..Len(ks)}

\* RequestRC(**data): an unknown keyword is a TypeError, a missing one takes
\* the field's default; the dataclass does no validation or conversion
RequestRC_from_dict(data, now, ms) ==
    IF ~(DOMAIN data \subseteq KeySet(RequestKeys))
    THEN [exc |-> "TypeError", val |-> PNone]
    ELSE [exc |-> "none",
          val |-> [subelement |-> Get(data, "subelement", PAtom("RC")),
                   date_opening |-> Get(data, "date_opening", PStr(strftime(now))),
                   description |-> Get(data, "description", PStr(<<>>)),
                   rc_code |-> Get(data, "rc_code", PStr(<<>>)),
                   buyer |-> Get(data, "buyer", PStr(<<>>)),
                   situation |-> Get(data, "situation", PAtom("Pendente")),
                   attachments |-> Get(data, "attachments", PList(<<>>)),
                   po_number |-> Get(data, "po_number", PStr(<<>>)),
                   nf_tracking |-> Get(data, "nf_tracking", PAtom("Aguardando recebimento")),
                   nf_attachments |-> Get(data, "nf_attachments", PList(<<>>)),
                   id |-> Get(data, "id", PInt(ms)),
                   created_at |-> Get(data, "created_at", PStr(strftime(now)))]]

\* asdict(self)
RequestRC_to_dict(r) == r

\* str() of both attachment lists
FormatRequestDict(d) ==
    [d EXCEPT !.attachments = PStr(PyStr(d.attachments)),
              !.nf_attachments = PStr(PyStr(d.nf_attachments))]

RequestRows(rqs) ==
    [i \in 1..Len(rqs) |->
        ValuesRow(FormatRequestDict(RequestRC_to_dict(rqs[i])), RequestKeys)]

save_requests_sheets(sh, rqs, fault) ==
    SaveSheet(sh, "Requests", HeaderRow(RequestKeys), RequestRows(rqs), fault, 1)

save_requests_local(fs, path, rqs, fault) ==
    IF fault = "none"
    THEN [ok |-> TRUE, err |-> 0,
          files |-> [fs EXCEPT ![path] =
                        FileJson(JsonObjects([i \in 1..Len(rqs) |-> RequestRC_to_dict(rqs[i])]))]]
    ELSE IF fault = "open"
    THEN [ok |-> FALSE, err |-> 0, files |-> fs]
    ELSE [ok |-> FALSE, err |-> 0, files |-> [fs EXCEPT ![path] = FileGarbage]]

\* {k: v for k, v in r.items() if k != 'attachments_str' and k in RequestRC.__annotations__}
AnnotatedOnly(r) == [key \in (DOMAIN r \cap KeySet(RequestKeys)) |-> r[key]]

RequestsOfRecords(recs, now, ms) ==
    IF recs.exc # "none" THEN [exc |-> recs.exc, val |-> <<>>]
    ELSE CollectVals([i \in 1..Len(recs.val) |->
                        RequestRC_from_dict(AnnotatedOnly(recs.val[i]), now, ms)])

LoadRequestsSheetsBody(sh, now, ms, fault) ==
    IF fault # "none" THEN [exc |-> "APIError", val |-> <<>>]
    ELSE RequestsOfRecords(get_all_records(sh["Requests"]), now, ms)

load_requests_sheets(sh, now, ms, fault) ==
    TryExcept(LoadRequestsSheetsBody(sh, now, ms, fault), <<>>)

RequestsOfItems(items, now, ms) ==
    IF items.exc # "none" THEN [exc |-> items.exc, val |-> <<>>]
    ELSE CollectVals([i \in 1..Len(items.val) |->
                        IF items.val[i].k = "object"
                        THEN RequestRC_from_dict(DictOfJson(items.val[i]), now, ms)
                        ELSE [exc |-> "TypeError", val |-> PNone]])

LoadRequestsLocalBody(content, now, ms, fault) ==
    RequestsOfItems(ReadItems(content, fault), now, ms)

load_requests_local(fs, path, now, ms, fault) ==
    IF fs[path].k = "absent" THEN [raised |-> "none", exc |-> "none", val |-> <<>>]
    ELSE TryExcept(LoadRequestsLocalBody(fs[path], now, ms, fault), <<>>)

-----------------------------------------------------------------------------
(* TaskUpdate and its load *)

UpdateKeys == <<"task_id", "content", "timestamp", "user", "id">>

Printable ==
    <<" ", "!", "\"", "#", "$", "%", "&", "'", "(", ")", "*", "+", ",", "-", ".", "/",
      "0", "1", "2", "3", "4", "5", "6", "7", "8", "9", ":", ";", "<", "=", ">", "?",
      "@", "A", "B", "C", "D", "E", "F", "G", "H", "I", "J", "K", "L", "M", "N", "O",
      "P", "Q", "R", "S", "T", "U", "V", "W", "X", "Y", "Z", "[", "\\", "]", "^", "_",
      "grave", "a", "b", "c", "d", "e", "f", "g", "h", "i", "j", "k", "l", "m", "n", "o",
      "p", "q", "r", "s", "t", "u", "v", "w", "x", "y", "z", "{", "|", "}", "~">>

\* ord(c) of a printable ASCII character (the entry "grave" holds the place
\* of the grave accent, which no text here contains)
Ord(c) == 31 + (CHOOSE i \in 1..Len(Printable) : Printable[i] = c)

\* hash(s) & 0x7FFFFFFF.  CPython keys the hash of a str with a seed drawn
\* once per process; what matters of it is kept: a function of the seed and
\* the text, reduced to 31 bits
Mask31 == 2147483647

\* (a + b) & 0x7FFFFFFF for a, b within the mask
AddMask(a, b) == IF a > Mask31 - b THEN (a - (Mask31 - b)) - 1 ELSE a + b

\* (33 * h + o) & 0x7FFFFFFF: 32 * h keeps the low 26 bits of h
HashStep(h, o) == AddMask(AddMask((h % 67108864) * 32, h), o)

\* the hash of the text so far is computed once and then mixed with the
\* next character
RECURSIVE str_hash(_, _)
str_hash(seed, cs) ==
    IF cs = <<>> THEN seed
    ELSE CHOOSE y \in {HashStep(h, Ord(cs[Len(cs)])) :
                         h \in {str_hash(seed, SubSeq(cs, 1, Len(cs) - 1))}} : TRUE

Take(cs, n) == SubSeq(cs, 1, IF Len(cs) < n THEN Len(cs) ELSE n)

\* f"{task_id}_{timestamp}_{content[:20]}_{index}"
unique_str(data, index) ==
    PyStr(Get(data, "task_id", PInt(0))) \o <<"_">>
    \o PyStr(Get(data, "timestamp", PStr(<<>>))) \o <<"_">>
    \o Take(Get(data, "content", PStr(<<>>)).v, 20) \o <<"_">> \o IntToChars(index)

TaskUpdate_from_dict(data, index, now, ms, seed) ==
    IF "id" \notin DOMAIN data /\ Get(data, "content", PStr(<<>>)).k # "str"
    THEN [exc |-> "TypeError", val |-> PNone]
    ELSE IF ~(DOMAIN data \subseteq KeySet(UpdateKeys))
            \/ ~({"task_id", "content"} \subseteq DOMAIN data)
    THEN [exc |-> "TypeError", val |-> PNone]
    ELSE [exc |-> "none",
          val |-> [task_id |-> data.task_id,
                   content |-> data.content,
                   timestamp |-> Get(data, "timestamp", PStr(strftime(now))),
                   user |-> Get(data, "user", PAtom("Maicon")),
                   id |-> Get(data, "id", PInt(str_hash(seed, unique_str(data, index))))]]

TaskUpdate_to_dict(u) == u

UpdatesOfRecords(recs, now, ms, seed) ==
    IF recs.exc # "none" THEN [exc |-> recs.exc, val |-> <<>>]
    ELSE CollectVals([i \in 1..Len(recs.val) |->
                        TaskUpdate_from_dict(recs.val[i], 0, now, ms, seed)])

LoadUpdatesSheetsBody(sh, now, ms, seed, fault) ==
    IF fault # "none" THEN [exc |-> "APIError", val |-> <<>>]
    ELSE UpdatesOfRecords(get_all_records(sh["Updates"]), now, ms, seed)

load_updates_sheets(sh, now, ms, seed, fault) ==
    TryExcept(LoadUpdatesSheetsBody(sh, now, ms, seed, fault), <<>>)

UpdatesOfItems(items, now, ms, seed) ==
    IF items.exc # "none" THEN [exc |-> items.exc, val |-> <<>>]
    ELSE CollectVals([i \in 1..Len(items.val) |->
                        IF items.val[i].k = "object"
                        THEN TaskUpdate_from_dict(DictOfJson(items.val[i]), i - 1, now, ms, seed)
                        ELSE [exc |-> "TypeError", val |-> PNone]])

LoadUpdatesLocalBody(content, now, ms, seed, fault) ==
    UpdatesOfItems(ReadItems(content, fault), now, ms, seed)

load_updates_local(fs, path, now, ms, seed, fault) ==
    IF fs[path].k = "absent" THEN [raised |-> "none", exc |-> "none", val |-> <<>>]
    ELSE TryExcept(LoadUpdatesLocalBody(fs[path], now, ms, seed, fault), <<>>)

UpdateRows(us) ==
    [i \in 1..Len(us) |-> ValuesRow(TaskUpdate_to_dict(us[i]), UpdateKeys)]

save_updates_sheets(sh, us, fault) ==
    SaveSheet(sh, "Updates", HeaderRow(UpdateKeys), UpdateRows(us), fault, 0)

save_updates_local(fs, path, us, fault) ==
    IF fault = "none"
    THEN [ok |-> TRUE, err |-> 0,
          files |-> [fs EXCEPT ![path] =
                        FileJson(JsonObjects([i \in 1..Len(us) |-> TaskUpdate_to_dict(us[i])]))]]
    ELSE IF fault = "open"
    THEN [ok |-> FALSE, err |-> 0, files |-> fs]
    ELSE [ok |-> FALSE, err |-> 0, files |-> [fs EXCEPT ![path] = FileGarbage]]

-----------------------------------------------------------------------------
(* Categories: a dict keeps the order of insertion, so a mapping is a        *)
(* sequence of entries [key, val], val a dict of the category's fields      *)

PDict(entries) == [k |-> "dict", v |-> entries]

CategoryFields(color, icon, name, bg) ==
    [color |-> PAtom(color), icon |-> PAtom(icon), name |-> PAtom(name), bg |-> PAtom(bg)]

CategoryEntry(key, val) == [key |-> key, val |-> val]

\* the icons are emoji in the source; they are spelled out here
DEFAULT_CATEGORY_OPTIONS ==
    PDict(<<
      CategoryEntry(PAtom("books Bolsas de Estudos"),
                    CategoryFields("#fdab3d", "books", "Bolsas de Estudos", "#5a4a2a")),
      CategoryEntry(PAtom("cap Incentivo à Educação (ETEC)"),
                    CategoryFields("#e44258", "cap", "Incentivo à Educação (ETEC)", "#4a2a2f")),
      CategoryEntry(PAtom("briefcase Programa de Estágio"),
                    CategoryFields("#00c875", "briefcase", "Programa de Estágio", "#1f4a3c")),
      CategoryEntry(PAtom("chart Indicadores da Área"),
                    CategoryFields("#00d9ff", "chart", "Indicadores da Área", "#1f3d4a")),
      CategoryEntry(PAtom("gear Projeto de Desenvolvimento"),
                    CategoryFields("#579bfc", "gear", "Projeto de Desenvolvimento", "#2a3d5a")),
      CategoryEntry(PAtom("handshake Relacionamento com Instituições"),
                    CategoryFields("#a25ddc", "handshake", "Relacionamento com Instituições", "#3d2a5a")),
      CategoryEntry(PAtom("office Deskbee"),
                    CategoryFields("#00cd8e", "office", "Deskbee", "#1f4a3c")),
      CategoryEntry(PAtom("people Pessoas/Atendimentos"),
                    CategoryFields("#ff5ac4", "people", "Pessoas/Atendimentos", "#4a2a4a")),
      CategoryEntry(PAtom("clipboard Outros"),
                    CategoryFields("#9699a6", "clipboard", "Outros", "#3d3d4a"))>>)

AdminUsers == {"2949400", "2484901", "GESTAO"}

\* list(item.keys()) for item = val.copy(); item['key'] = key
ItemKeys(val) ==
    SelectSeq(<<"color", "icon", "name", "bg", "owner">>, LAMBDA f : f \in DOMAIN val)
    \o <<"key">>

ItemOf(entry) ==
    [f \in (DOMAIN entry.val \cup {"key"}) |->
        IF f = "key" THEN entry.key ELSE entry.val[f]]

CategoryRows(es) ==
    [i \in 1..Len(es) |-> ValuesRow(ItemOf(es[i]), ItemKeys(es[i].val))]

save_categories_sheets(sh, cats, fault) ==
    SaveSheet(sh, "Categories",
              IF cats.v = <<>> THEN <<>> ELSE HeaderRow(ItemKeys(cats.v[1].val)),
              CategoryRows(cats.v), fault, 1)

\* cats[key] = val
Put(m, key, val) ==
    IF \E i \in 1..Len(m) : m[i].key = key
    THEN [i \in 1..Len(m) |-> IF m[i].key = key THEN CategoryEntry(key, val) ELSE m[i]]
    ELSE Append(m, CategoryEntry(key, val))

\* one turn of the loop over the records of the Categories worksheet
PutRow(cats, row, key) ==
    IF Truthy(key)
    THEN Put(cats, key,
             [color |-> Get(row, "color", PNone), icon |-> Get(row, "icon", PNone),
              name |-> Get(row, "name", PNone), bg |-> Get(row, "bg", PNone)])
    ELSE cats

RECURSIVE CatsOfRecords(_, _)
CatsOfRecords(recs, cats) ==
    IF recs = <<>> THEN cats
    ELSE CatsOfRecords(Tail(recs), PutRow(cats, Head(recs), Get(Head(recs), "key", PNone)))

\* if not cats: return DEFAULT_CATEGORY_OPTIONS.copy()
CatsOrDefault(cats) ==
    IF cats = <<>> THEN [exc |-> "none", val |-> DEFAULT_CATEGORY_OPTIONS]
    ELSE [exc |-> "none", val |-> PDict(cats)]

CategoriesOfRecords(recs) ==
    IF recs.exc # "none" THEN [exc |-> recs.exc, val |-> PNone]
    ELSE CatsOrDefault(CatsOfRecords(recs.val, <<>>))

LoadCategoriesSheetsBody(sh, fault) ==
    IF fault # "none" THEN [exc |-> "APIError", val |-> PNone]
    ELSE CategoriesOfRecords(get_all_records(sh["Categories"]))

load_categories_sheets(sh, fault) ==
    TryExcept(LoadCategoriesSheetsBody(sh, fault), DEFAULT_CATEGORY_OPTIONS)

\* json.dump of a mapping: a key that is an int is written as its digits
JsonKey(key) == IF key.k = "int" THEN PStr(IntToChars(key.v)) ELSE key

JsonOfCategories(cats) ==
    [k |-> "dict",
     v |-> [i \in 1..Len(cats.v) |->
              [key |-> JsonKey(cats.v[i].key), val |-> JsonObject(cats.v[i].val)]]]

\* json.load of the categories file: whatever JSON value the file holds
CategoriesOfJson(j) ==
    IF j.k = "dict"
    THEN PDict([i \in 1..Len(j.v) |->
                   CategoryEntry(j.v[i].key, DictOfJson(j.v[i].val))])
    ELSE JsonLoad(j)

save_categories_local(fs, path, cats, fault) ==
    IF fault = "none"
    THEN [ok |-> TRUE, err |-> 0,
          files |-> [fs EXCEPT ![path] = FileJson(JsonOfCategories(cats))]]
    ELSE IF fault = "open"
    THEN [ok |-> FALSE, err |-> 1, files |-> fs]
    ELSE [ok |-> FALSE, err |-> 1, files |-> [fs EXCEPT ![path] = FileGarbage]]

LoadCategoriesLocalBody(content, fault) ==
    IF fault = "open" THEN [exc |-> "OSError", val |-> PNone]
    ELSE IF content.k # "json" THEN [exc |-> "JSONDecodeError", val |-> PNone]
    ELSE [exc |-> "none", val |-> CategoriesOfJson(content.v)]

\* DEFAULT_CATEGORY_OPTIONS.copy() if is_admin else {}
LocalFallback(user) ==
    IF user \in AdminUsers THEN DEFAULT_CATEGORY_OPTIONS ELSE PDict(<<>>)

load_categories_local(fs, path, user, fault) ==
    IF fs[path].k = "absent"
    THEN [raised |-> "none", exc |-> "none", val |-> LocalFallback(user)]
    ELSE TryExcept(LoadCategoriesLocalBody(fs[path], fault), LocalFallback(user))

-----------------------------------------------------------------------------
(* Inputs of the entity-construction checks *)

TokSeqs(S, n) == UNION {[1..m -> S] : m \in 0..n}

TitleToks == {<<"<">>, <<">">>, EntLt, EntGt, EntAmp, <<"a">>, <<" ">>}
TitleTexts == {Flatten(ts) : ts \in TokSeqs(TitleToks, MaxTitleToks)}
FewTitles == {<<"a">>, <<" ">>, <<>>, <<"<", "a", ">">>}

Dates == {<<2026, 1, 6>>, <<2025, 12, 31>>}
IsoText == <<"2", "0", "2", "6", "-", "0", "1", "-", "0", "6">>
BrText == <<"0", "6", "/", "0", "1", "/", "2", "0", "2", "6">>
DueInputs == {PDate(d) : d \in Dates} \cup {PStr(IsoText), PStr(BrText), PStr(<<>>)}
FewDues == {PDate(<<2026, 1, 6>>), PStr(IsoText)}

CollabNames ==
    {<<"A">>, <<"B", ",", "C">>, <<" ">>, <<"<", "i", ">">>,
     <<"O", "'", "N">>, EntAmp \o <<"l", "t", ";">>}
CollabLists == {PList([i \in 1..Len(ns) |-> PStr(ns[i])]) : ns \in TokSeqs(CollabNames, MaxCollabs)}
CollabTexts ==
    {<<>>, <<"[">>, <<"a", "b", "c">>, <<"1", "2", "3">>, <<"0">>, <<"'", "A", "'">>,
     <<"[", "1", ",", " ", "0", "]">>, <<"[", "'", "A", "'", ",", "]">>}
    \cup {PyRepr(l) : l \in CollabLists}
CollabInputs == {PNone} \cup CollabLists \cup {PStr(cs) : cs \in CollabTexts}
FewCollabs == {PList(<<>>), PList(<<PStr(<<"A">>)>>)}

CtorArgs(title, due, collabs, now, ms) ==
    [title |-> title,
     responsible |-> PAtom("Maicon"),
     category |-> PAtom("Outros"),
     priority |-> PAtom("Média"),
     status |-> PAtom("Pendente"),
     due_date |-> due,
     description |-> PAtom("d"),
     attachments |-> PList(<<>>),
     collaborators |-> collabs,
     manager_feedback |-> PStr(<<>>),
     id |-> PInt(ms),
     created_at |-> PStr(strftime(now))]

\* a stored record with the given keys left out
DictArgs(title, due, collabs, missing) ==
    LET full == [title |-> title, responsible |-> PAtom("Maicon"),
                 category |-> PAtom("Outros"), priority |-> PAtom("Média"),
                 status |-> PAtom("Pendente"), description |-> PAtom("d"),
                 attachments |-> PList(<<>>), collaborators |-> collabs,
                 manager_feedback |-> PStr(<<>>), id |-> PInt(7),
                 dueDate |-> due, createdAt |-> PStr(IsoText)]
    IN [key \in (DOMAIN full) \ missing |-> full[key]]

MissingSets == {{}, {"title"}, {"dueDate"}, {"collaborators"}, {"id", "createdAt"}}

TaskInputs ==
    ({PStr(t) : t \in TitleTexts} \X FewDues \X FewCollabs)
    \cup (({PStr(t) : t \in FewTitles} \cup {PInt(12)}) \X DueInputs \X CollabInputs)

TaskArgSet(now, ms) ==
    {[via |-> "ctor", a |-> CtorArgs(i[1], i[2], i[3], now, ms)] : i \in TaskInputs}
    \cup {[via |-> "dict", data |-> DictArgs(i[1], i[2], i[3], m)] :
            i \in {x \in TaskInputs : x[2].k # "date"}, m \in MissingSets}

-----------------------------------------------------------------------------
(* Entity construction: one call of the constructor or of Task.from_dict *)

EnvInit ==
    /\ today \in Dates
    /\ clock = 1
    /\ use_sheets = FALSE
    /\ current_user = "2949400"
    /\ data_manager = DataManager_init(current_user)
    /\ tasks = <<>>
    /\ categories = PDict(<<>>)
    /\ requests = <<>>
    /\ files = [p \in AllPaths |-> FileAbsent]
    /\ sheets = [w \in Worksheets |-> <<>>]
    /\ ui_errors = 0
    /\ editing_task_id = 0

InitTask ==
    /\ EnvInit
    /\ arg \in TaskArgSet(today, clock)
    /\ ret = Raise("nocall")
    /\ pc = "ready"

TaskCall ==
    /\ pc = "ready"
    /\ arg.via = "ctor"
    /\ ret' = Task_post_init(arg.a)
    /\ pc' = "done"
    /\ UNCHANGED <<arg, today, clock, use_sheets, current_user, data_manager, tasks,
                   categories, requests, files, sheets, ui_errors, editing_task_id>>

TaskFromDictCall ==
    /\ pc = "ready"
    /\ arg.via = "dict"
    /\ ret' = Task_from_dict(arg.data, today, clock)
    /\ pc' = "done"
    /\ UNCHANGED <<arg, today, clock, use_sheets, current_user, data_manager, tasks,
                   categories, requests, files, sheets, ui_errors, editing_task_id>>

NextTask == TaskCall \/ TaskFromDictCall

SpecTask == InitTask /\ [][NextTask]_vars

\* the title the examined call was given
TitleGiven ==
    IF arg.via = "ctor" THEN arg.a.title ELSE Get(arg.data, "title", PStr(<<>>))
DueGiven ==
    IF arg.via = "ctor" THEN arg.a.due_date
    ELSE Get(arg.data, "dueDate", PStr(strftime(today)))
CollabsGiven ==
    IF arg.via = "ctor" THEN arg.a.collaborators
    ELSE Get(arg.data, "collaborators", PList(<<>>))

IsBlank(cs) == \A i \in 1..Len(cs) : cs[i] = " "
HasMarkup(cs) == \E i \in 1..Len(cs) : \E j \in (i + 1)..Len(cs) : cs[i] = "<" /\ cs[j] = ">"

\* C1: a construction (constructor or Task.from_dict) whose title is empty
\* or only whitespace ends in the validation error and yields no Task
C1_BlankTitleRejected ==
    (pc = "done" /\ TitleGiven.k = "str" /\ IsBlank(TitleGiven.v))
        => (ret.exc = "ValueError" /\ "task" \notin DOMAIN ret)

C1_Witness ==
    /\ pc = "done"
    /\ arg.via = "dict"
    /\ TitleGiven = PStr(<<" ">>)
    /\ ret.exc = "ValueError"

\* C3: the title stored by a successful construction holds no '<' that is
\* followed later by a '>'
C3_NoMarkupInTitle ==
    (pc = "done" /\ ret.exc = "none") => ~HasMarkup(ret.task.title)

C3_Witness ==
    /\ pc = "done"
    /\ ret.exc = "none"
    /\ TitleGiven.v = EntLt \o EntGt \o <<"a">>
    /\ ret.task.title = <<"a">>

IsIsoDate(cs) ==
    /\ Len(cs) = 10
    /\ \A i \in {1, 2, 3, 4, 6, 7, 9, 10} : cs[i] \in Digits
    /\ cs[5] = "-"
    /\ cs[8] = "-"

\* C4: after every successful construction due_date is a text of the form
\* YYYY-MM-DD, whether a date object or a string was supplied
C4_DueDateIso ==
    (pc = "done" /\ ret.exc = "none")
        => (ret.task.due_date.k = "str" /\ IsIsoDate(ret.task.due_date.v))

ParsesAsList(cs) == cs = <<>> \/ (literal_eval(cs).ok /\ literal_eval(cs).val.k = "list")

\* C5: for a collaborators argument that is a list or a string, construction
\* does not raise and leaves a list of non-empty, markup-free strings; a
\* string that does not parse as a list leaves the empty list
C5_CollaboratorsList ==
    (/\ pc = "done"
     /\ TitleGiven.k = "str"
     /\ ~IsBlank(TitleGiven.v)
     /\ CollabsGiven.k \in {"list", "str"})
        => /\ ret.exc = "none"
           /\ ret.task.collaborators.k = "list"
           /\ \A i \in 1..Len(ret.task.collaborators.v) :
                 LET c == ret.task.collaborators.v[i]
                 IN c.k = "str" /\ c.v # <<>> /\ ~HasMarkup(c.v)
           /\ (CollabsGiven.k = "str" /\ ~ParsesAsList(CollabsGiven.v))
                 => ret.task.collaborators = PList(<<>>)

-----------------------------------------------------------------------------
(* A session on local files: initialize_app, then the task handlers of the  *)
(* boards view and of the two modals.  Every handler ends with save_tasks   *)
(* of the whole session collection.                                         *)

STATUS_CONFIG == {"Pendente", "Em Andamento", "Para Revisão", "Concluído"}
PRIORITY_CONFIG == {"Baixa", "Média", "Alta", "Urgente"}

\* the store of a session is writable: failing writes are examined on the
\* gateway operations themselves
SessionFaults == {"none"}
FormTitles == {<<"a">>, <<" ">>, <<"<", "a", ">">>}
EditTitles == {<<"a">>, <<" ">>}
FormDues == {<<2026, 1, 6>>}
FormPrios == {"Média", "Urgente"}
FormCollabs == {PList(<<PStr(<<"A">>)>>)}

\* buscar_colaborador_por_matricula(...).get("nome"): the directory holds the
\* default identity only
GestoresNome(user) == IF user = DefaultUser THEN "Maicon" ELSE ""
ResponsibleName(user) == IF GestoresNome(user) = "" THEN "Usuário" ELSE GestoresNome(user)

\* a store another session left: one task, of high priority or not
SessionTask(ms, prio) ==
    [Task_post_init(CtorArgs(PStr(<<"a">>), PStr(IsoText), PList(<<>>), <<2026, 1, 6>>, ms)).task
        EXCEPT !.priority = PAtom(prio)]
FoundTaskFile(ms, prio) == FileJson(JsonObjects(TaskDicts(<<SessionTask(ms, prio)>>)))

\* a fresh browser session: nothing in st.session_state
InitSession ==
    /\ today \in Dates
    /\ clock = 1
    /\ use_sheets = FALSE
    /\ current_user = ""
    /\ data_manager = NoManager
    /\ tasks = <<>>
    /\ categories = PDict(<<>>)
    /\ requests = <<>>
    /\ \E own \in {FileAbsent, FoundTaskFile(1, "Média")},
          other \in {FileAbsent, FoundTaskFile(2, "Urgente")} :
         files = [p \in AllPaths |->
                    IF p = StorePath("flow_data", DefaultUser) THEN own
                    ELSE IF p = StorePath("flow_data", "2858700") THEN other
                    ELSE FileAbsent]
    /\ sheets = [w \in Worksheets |-> <<>>]
    /\ ui_errors = 0
    /\ editing_task_id = 0
    /\ arg = [via |-> "session"]
    /\ ret = Raise("nocall")
    /\ pc = "start"

\* the store that save_tasks of the session's gateway writes
DataPath == data_manager.file_path

\* what a handler leaves alone besides the session collection and the store
SessionFrame == UNCHANGED <<arg, ret, today, clock, use_sheets, current_user,
                            data_manager, categories, requests, sheets>>

\* the session collection and the outcome sv of its save
Stored(ts, sv) ==
    /\ tasks' = ts
    /\ files' = sv.files
    /\ ui_errors' = sv.err

\* st.session_state.data_manager.save_tasks(st.session_state.tasks)
SaveSession(ts, fault) == Stored(ts, save_tasks_local(files, DataPath, ts, fault))

\* st.session_state.tasks = data_manager.load_tasks()
TasksLoaded(r) ==
    /\ tasks' = r.val
    /\ files' = r.files
    /\ ui_errors' = r.err

\* load_tasks of the gateway dm on local files: the branch is chosen by the
\* session's current_user, the single store read is dm.file_path
SessionLoadTasks(dm, order, fault) ==
    IF UserOr(current_user) \in Managers
    THEN load_tasks_manager(files, <<StorePath("flow_data", DefaultUser)>> \o order,
                            today, clock)
    ELSE load_tasks_local(files, dm.file_path, today, clock, fault)

\* the body of initialize_app with the gateway dm: the keys missing from
\* st.session_state are loaded (requests survives a login)
AppInitialized(dm, order, fault) ==
    /\ data_manager' = dm
    /\ categories' =
         load_categories_local(files, dm.categories_path, UserOr(current_user), fault).val
    /\ TasksLoaded(SessionLoadTasks(dm, order, fault))
    /\ requests' =
         IF pc = "start"
         THEN load_requests_local(files, dm.requests_path, today, clock, fault).val
         ELSE requests

\* initialize_app, which main() runs before the login check: on a fresh
\* session it builds the gateway (current_user still unset) and loads; on
\* the rerun after a login the gateway of the session is kept
InitializeApp ==
    /\ pc \in {"start", "rerun"}
    /\ \E fault \in SessionFaults, order \in Orderings(ListedFiles(files)) :
         AppInitialized(IF pc = "start" THEN DataManager_init(current_user)
                        ELSE data_manager, order, fault)
    /\ pc' = IF pc = "start" THEN "login" ELSE "run"
    /\ UNCHANGED <<editing_task_id, arg, ret, today, clock, use_sheets, current_user, sheets>>

\* login_page, the form submitted with valid credentials ("gestao" logs in
\* as GESTAO): the identity is set and the keys tasks and categories deleted
Login ==
    /\ pc = "login"
    /\ \E mat \in {DefaultUser} \cup OrdinaryUsers \cup Managers : current_user' = mat
    /\ tasks' = <<>>
    /\ categories' = PDict(<<>>)
    /\ pc' = "rerun"
    /\ UNCHANGED <<editing_task_id, arg, ret, today, clock, use_sheets, data_manager,
                   requests, files, sheets, ui_errors>>

\* the branches of the submit handler: st.error, or append and save
TaskSubmitted(final_title, r, fault) ==
    IF final_title = <<>> \/ r.exc # "none"
    THEN /\ ui_errors' = 1
         /\ UNCHANGED <<tasks, files>>
    ELSE SaveSession(Append(tasks, r.task), fault)

\* NewTaskModal.render, form submitted (plain category, no attendance data);
\* ms is the time of the submission, not before the last one
NewTaskSubmit ==
    /\ pc = "run"
    /\ Len(tasks) < MaxTasks
    /\ \E title \in FormTitles, prio \in FormPrios, due \in FormDues,
          collabs \in FormCollabs, fault \in SessionFaults, ms \in clock..MaxClock :
         /\ clock' = ms
         /\ TaskSubmitted(
              strip(title),
              Task_post_init(
                [title |-> PStr(strip(title)),
                 responsible |-> PAtom(ResponsibleName(current_user)),
                 category |-> PAtom("Outros"),
                 priority |-> PAtom(prio),
                 status |-> PAtom("Pendente"),
                 due_date |-> PStr(strftime(due)),
                 description |-> PStr(<<>>),
                 attachments |-> PList(<<>>),
                 collaborators |-> collabs,
                 manager_feedback |-> PStr(<<>>),
                 id |-> PInt(ms),
                 created_at |-> PStr(strftime(today))]),
              fault)
    /\ UNCHANGED <<pc, editing_task_id, arg, ret, today, use_sheets, current_user,
                   data_manager, categories, requests, sheets>>

\* the card of tasks[i] is drawn: everything drawn before it and its own
\* strptime and selectbox index lookups succeed
Renderable(t) ==
    /\ t.due_date.k = "str" /\ IsIsoDate(t.due_date.v)
    /\ t.status.v \in STATUS_CONFIG
    /\ t.priority.v \in PRIORITY_CONFIG
CardDrawn(i) == i \in 1..Len(tasks) /\ \A j \in 1..i : Renderable(tasks[j])

StatusSelect ==
    /\ pc = "run"
    /\ \E i \in 1..Len(tasks), new_status \in STATUS_CONFIG, fault \in SessionFaults :
         /\ CardDrawn(i)
         /\ new_status # tasks[i].status.v
         /\ SaveSession([tasks EXCEPT ![i].status = PAtom(new_status)], fault)
    /\ UNCHANGED <<pc, editing_task_id>>
    /\ SessionFrame

PrioritySelect ==
    /\ pc = "run"
    /\ \E i \in 1..Len(tasks), new_prio \in FormPrios, fault \in SessionFaults :
         /\ CardDrawn(i)
         /\ new_prio # tasks[i].priority.v
         /\ SaveSession([tasks EXCEPT ![i].priority = PAtom(new_prio)], fault)
    /\ UNCHANGED <<pc, editing_task_id>>
    /\ SessionFrame

RECURSIVE WithoutId(_, _)
WithoutId(ts, id) ==
    IF ts = <<>> THEN <<>>
    ELSE IF Head(ts).id = id THEN WithoutId(Tail(ts), id)
    ELSE <<Head(ts)>> \o WithoutId(Tail(ts), id)

DeleteTask ==
    /\ pc = "run"
    /\ \E i \in 1..Len(tasks), fault \in SessionFaults :
         /\ CardDrawn(i)
         /\ SaveSession(WithoutId(tasks, tasks[i].id), fault)
    /\ UNCHANGED <<pc, editing_task_id>>
    /\ SessionFrame

EditButton ==
    /\ pc = "run"
    /\ \E i \in 1..Len(tasks) :
         /\ CardDrawn(i)
         /\ editing_task_id' = tasks[i].id.v
    /\ UNCHANGED <<pc, tasks, files, ui_errors>>
    /\ SessionFrame

\* BoardsView.render, the inline edit form saved
InlineEditSave ==
    /\ pc = "run"
    /\ \E i \in 1..Len(tasks), ie_title \in EditTitles, ie_prio \in FormPrios,
          ie_due \in FormDues, mark_completed \in BOOLEAN, fault \in SessionFaults :
         /\ CardDrawn(i)
         /\ editing_task_id = tasks[i].id.v
         /\ LET st == IF mark_completed THEN PAtom("Concluída")
                      ELSE IF tasks[i].status.v = "Concluída" THEN PAtom("Pendente")
                      ELSE tasks[i].status
            IN SaveSession([tasks EXCEPT ![i].title = ie_title,
                                         ![i].priority = PAtom(ie_prio),
                                         ![i].due_date = PStr(strftime(ie_due)),
                                         ![i].status = st], fault)
    /\ editing_task_id' = 0
    /\ UNCHANGED pc
    /\ SessionFrame

FirstWithId(ts, id) == CHOOSE i \in 1..Len(ts) : ts[i].id.v = id /\ \A j \in 1..(i - 1) : ts[j].id.v # id

\* EditTaskModal.render, the form saved
EditModalSave ==
    /\ pc = "run"
    /\ editing_task_id # 0
    /\ \E i \in 1..Len(tasks) : tasks[i].id.v = editing_task_id
    /\ LET i == FirstWithId(tasks, editing_task_id) IN
         /\ tasks[i].priority.v \in PRIORITY_CONFIG
         /\ tasks[i].due_date.k = "str" /\ IsIsoDate(tasks[i].due_date.v)
         /\ \E e_title \in EditTitles, e_prio \in FormPrios, e_due \in FormDues,
               e_status_done \in BOOLEAN, fault \in SessionFaults :
              LET st == IF e_status_done /\ tasks[i].status.v # "Concluído"
                        THEN PAtom("Concluído")
                        ELSE IF ~e_status_done /\ tasks[i].status.v = "Concluído"
                        THEN PAtom("Em Andamento")
                        ELSE tasks[i].status
              IN SaveSession([tasks EXCEPT ![i].title = e_title,
                                           ![i].priority = PAtom(e_prio),
                                           ![i].due_date = PStr(strftime(e_due)),
                                           ![i].status = st], fault)
    /\ editing_task_id' = 0
    /\ UNCHANGED pc
    /\ SessionFrame

\* a < b for two texts, as Python compares str
RECURSIVE LexLess(_, _)
LexLess(a, b) ==
    IF b = <<>> THEN FALSE
    ELSE IF a = <<>> THEN TRUE
    ELSE IF Head(a) = Head(b) THEN LexLess(Tail(a), Tail(b))
    ELSE Ord(Head(a)) < Ord(Head(b))

\* FollowUpView.render: overdue + high_priority_pending, the tasks that get
\* the feedback expander
Attention(t) ==
    /\ t.status.v # "Concluído"
    /\ \/ t.priority.v \in {"Alta", "Urgente"}
       \/ t.due_date.k = "str" /\ LexLess(t.due_date.v, strftime(today))

FeedTexts == {<<"o", "k">>}

\* t.manager_feedback = new_feed; real_t.manager_feedback = new_feed, where
\* real_t is the first task of the session collection with t's id
FeedbackSet(ts, i, new_feed) ==
    [ts EXCEPT ![i].manager_feedback = PStr(new_feed),
               ![FirstWithId(ts, ts[i].id.v)].manager_feedback = PStr(new_feed)]

\* FollowUpView.render, "Salvar Notificação" pressed by a manager
ManagerFeedbackSave ==
    /\ pc = "run"
    /\ current_user \in Managers
    /\ \E i \in 1..Len(tasks), new_feed \in FeedTexts, fault \in SessionFaults :
         /\ Attention(tasks[i])
         /\ SaveSession(FeedbackSet(tasks, i, new_feed), fault)
    /\ UNCHANGED <<pc, editing_task_id>>
    /\ SessionFrame

\* FollowUpView.render, "Excluir" pressed by a manager
ManagerFeedbackDelete ==
    /\ pc = "run"
    /\ current_user \in Managers
    /\ \E i \in 1..Len(tasks), fault \in SessionFaults :
         /\ Attention(tasks[i])
         /\ SaveSession(FeedbackSet(tasks, i, <<>>), fault)
    /\ UNCHANGED <<pc, editing_task_id>>
    /\ SessionFrame

NextSession ==
    \/ InitializeApp
    \/ Login
    \/ ManagerFeedbackSave
    \/ ManagerFeedbackDelete
    \/ NewTaskSubmit
    \/ StatusSelect
    \/ PrioritySelect
    \/ DeleteTask
    \/ EditButton
    \/ InlineEditSave
    \/ EditModalSave

SpecSession == InitSession /\ [][NextSession]_vars

\* the Task records of the store the session's gateway writes
StoredTaskRecords ==
    IF DataPath \in AllPaths /\ files[DataPath].k = "json" /\ files[DataPath].v.k = "array"
    THEN files[DataPath].v.v ELSE <<>>

\* C2: every task of the session collection and every task written to the
\* store has a title that is non-empty after trimming
C2_TitleNonEmpty ==
    /\ \A i \in 1..Len(tasks) : ~IsBlank(tasks[i].title)
    /\ \A i \in 1..Len(StoredTaskRecords) :
          ~IsBlank(StoredTaskRecords[i].v.title.v.v)

\* C6: a JSON-file record of a task has the keys dueDate and createdAt, not
\* due_date and created_at, and its attachments and collaborators are arrays
C6_JsonRecordShape ==
    \A i \in 1..Len(StoredTaskRecords) :
        LET rec == StoredTaskRecords[i].v IN
        /\ {"dueDate", "createdAt"} \subseteq DOMAIN rec
        /\ {"due_date", "created_at"} \cap DOMAIN rec = {}
        /\ rec.attachments.k = "array"
        /\ rec.collaborators.k = "array"

-----------------------------------------------------------------------------
(* The gateway operations on their own: a collection is saved and loaded    *)
(* back, or a store found in some state is loaded, in either backend        *)

StoreUsers == {DefaultUser} \cup OrdinaryUsers \cup {"GESTAO"}
StoreKindOf == [tasks |-> "flow_data", updates |-> "flow_updates",
                categories |-> "flow_categories", requests |-> "flow_requests"]
SheetOf == [tasks |-> "Tasks", updates |-> "Updates",
            categories |-> "Categories", requests |-> "Requests"]
Collections == {"tasks", "updates", "categories", "requests"}
LocalFaults == {"none", "open", "write"}
SheetFaults == {"none", "connect", "clear", "header"}
HashSeeds == {0, 7}

FileName == <<"a", ".", "p", "d", "f">>
AttachLists ==
    {PList(<<>>), PList(<<PStr(FileName)>>),
     PList(<<PStr(<<"b", ",", "c">>), PStr(<<"o", "'", "n">>)>>)}

\* tasks as the constructor leaves them
SampleTask(collabs, att, ms) ==
    Task_post_init([CtorArgs(PStr(<<"a">>), PStr(IsoText), collabs, <<2026, 1, 6>>, ms)
                       EXCEPT !.attachments = att]).task
SampleTasks == {SampleTask(c, a, 1) : c \in CollabLists, a \in AttachLists}
GoodTask == SampleTask(PList(<<PStr(<<"A">>)>>), PList(<<PStr(FileName)>>), 1)
TaskColls ==
    {<<>>} \cup {<<t>> : t \in SampleTasks}
    \cup {<<GoodTask, SampleTask(PList(<<>>), PList(<<>>), 2)>>}

SampleRequest(att, nf, ms) ==
    RequestRC_from_dict([description |-> PAtom("d"), attachments |-> att,
                         nf_attachments |-> nf, id |-> PInt(ms)], <<2026, 1, 6>>, ms).val
RequestColls ==
    {<<>>} \cup {<<SampleRequest(a, n, 1)>> : a \in AttachLists, n \in AttachLists}
    \cup {<<SampleRequest(PList(<<>>), PList(<<>>), 1),
            SampleRequest(PList(<<PStr(FileName)>>), PList(<<>>), 2)>>}

SampleUpdate(ms) ==
    [task_id |-> PInt(1), content |-> PStr(<<"o", "k">>),
     timestamp |-> PStr(IsoText), user |-> PAtom("Maicon"), id |-> PInt(ms)]
UpdateColls == {<<>>, <<SampleUpdate(1)>>, <<SampleUpdate(1), SampleUpdate(2)>>}

\* the owner a user-created category records: the creator's identity
OwnerText == <<"2", "8", "5", "8", "7", "0", "0">>
WithOwner(val) ==
    [f \in (DOMAIN val \cup {"owner"}) |-> IF f = "owner" THEN PStr(OwnerText) ELSE val[f]]
SampleEntries ==
    {DEFAULT_CATEGORY_OPTIONS.v[1], DEFAULT_CATEGORY_OPTIONS.v[9],
     CategoryEntry(PAtom("x Novo"), WithOwner(CategoryFields("#9699a6", "x", "Novo", "#3d3d4a"))),
     CategoryEntry(PAtom("y Meu"), WithOwner(CategoryFields("#9699a6", "y", "Meu", "#3d3d4a")))}
CategoryColls ==
    {PDict(es) : es \in {q \in TokSeqs(SampleEntries, 2) :
                            \A i, j \in 1..Len(q) : i # j => q[i].key # q[j].key}}

CollsOf(kind) ==
    CASE kind = "tasks" -> TaskColls
      [] kind = "updates" -> UpdateColls
      [] kind = "requests" -> RequestColls
      [] OTHER -> CategoryColls

EmptyColl(kind) == IF kind = "categories" THEN PDict(<<>>) ELSE <<>>

\* a store as another run, another program or a hand may have left it
GoodObject(kind) ==
    CASE kind = "tasks" -> JsonObject(Task_to_dict(GoodTask))
      [] kind = "updates" -> JsonObject(TaskUpdate_to_dict(SampleUpdate(1)))
      [] OTHER -> JsonObject(RequestRC_to_dict(SampleRequest(PList(<<>>), PList(<<>>), 1)))
BadObject == JsonObject([bogus |-> PInt(1)])
\* a task record as the edit forms store it when the title field was blanked
BlankTitledTask == [GoodTask EXCEPT !.title = <<" ">>, !.id = PInt(3)]
BlankTitled == JsonObject(Task_to_dict(BlankTitledTask))
JsonNumber == [k |-> "number", v |-> 0]
JsonArray(xs) == [k |-> "array", v |-> xs]

FoundFiles(kind) ==
    {FileAbsent, FileGarbage, FileJson(JsonNumber), FileJson(JsonArray(<<JsonNumber>>))}
    \cup (IF kind = "categories"
          THEN {FileJson(JsonOfCategories(PDict(<<DEFAULT_CATEGORY_OPTIONS.v[9]>>)))}
          ELSE {FileJson(JsonArray(<<GoodObject(kind)>>)),
                FileJson(JsonArray(<<GoodObject(kind), BadObject>>))})
    \cup (IF kind = "tasks"
          THEN {FileJson(JsonArray(<<BlankTitled, GoodObject(kind)>>))}
          ELSE {})

HeaderOf(kind) ==
    CASE kind = "tasks" -> HeaderRow(TaskDictKeys)
      [] kind = "updates" -> HeaderRow(UpdateKeys)
      [] kind = "requests" -> HeaderRow(RequestKeys)
      [] OTHER -> HeaderRow(<<"color", "icon", "name", "bg", "key">>)
GoodRow(kind) ==
    CASE kind = "tasks" -> ValuesRow(FormatTaskDict(Task_to_dict(GoodTask)), TaskDictKeys)
      [] kind = "updates" -> ValuesRow(SampleUpdate(1), UpdateKeys)
      [] kind = "requests" ->
           ValuesRow(FormatRequestDict(SampleRequest(PList(<<>>), PList(<<>>), 1)), RequestKeys)
      [] OTHER -> ValuesRow(ItemOf(DEFAULT_CATEGORY_OPTIONS.v[9]),
                            <<"color", "icon", "name", "bg", "key">>)
BlankRow(kind) == [i \in 1..Len(HeaderOf(kind)) |-> BlankCell]

FoundSheets(kind) ==
    {<<>>,
     <<HeaderOf(kind)>>,
     <<HeaderOf(kind), GoodRow(kind)>>,
     <<HeaderOf(kind), GoodRow(kind), BlankRow(kind)>>,
     <<HeaderOf(kind) \o <<HeaderOf(kind)[1]>>, GoodRow(kind)>>,
     <<HeaderOf(kind), GoodRow(kind) \o <<PInt(1)>>>>,
     <<Tail(HeaderOf(kind)), GoodRow(kind)>>}
    \cup (IF kind = "tasks"
          THEN {<<HeaderOf(kind),
                  ValuesRow(FormatTaskDict(Task_to_dict(BlankTitledTask)), TaskDictKeys),
                  GoodRow(kind)>>}
          ELSE {})

\* prior: the store of the collection existed when the save was called
NoResult ==
    [op |-> "none", saved |-> "no", prior |-> FALSE, fault |-> "none",
     raised |-> "none", exc |-> "none", val |-> <<>>]

InitStore ==
    /\ today = <<2026, 1, 6>>
    /\ clock = 1
    /\ use_sheets \in BOOLEAN
    /\ current_user \in StoreUsers
    /\ data_manager = DataManager_init(current_user)
    /\ tasks = <<>>
    /\ categories = PDict(<<>>)
    /\ requests = <<>>
    /\ ui_errors = 0
    /\ editing_task_id = 0
    /\ pc = "ready"
    /\ ret = NoResult
    /\ \E kind \in Collections :
         /\ arg \in {[kind |-> kind, coll |-> c] : c \in CollsOf(kind)}
         /\ \E own \in FoundFiles(kind), other \in FoundFiles(kind), sheet \in FoundSheets(kind) :
              /\ arg.coll # EmptyColl(kind) => own = FileAbsent /\ sheet = <<>>
              /\ use_sheets => own = FileAbsent
              /\ ~use_sheets => sheet = <<>>
              /\ ~(kind = "tasks" /\ current_user \in Managers /\ ~use_sheets
                   /\ arg.coll = <<>>) => other = FileAbsent
              /\ files = [p \in AllPaths |->
                            IF p = StorePath(StoreKindOf[kind], current_user) THEN own
                            ELSE IF p = StorePath(StoreKindOf[kind], "2858700") THEN other
                            ELSE FileAbsent]
              /\ sheets = [w \in Worksheets |-> IF w = SheetOf[kind] THEN sheet ELSE <<>>]

StoreFrame == UNCHANGED <<arg, today, clock, use_sheets, current_user, data_manager,
                          tasks, categories, requests, editing_task_id>>

\* the outcome sv of a save, on either backend
SavedSheets(op, sv) ==
    /\ sheets' = sv.sheets
    /\ UNCHANGED files
    /\ ret' = [NoResult EXCEPT !.op = op, !.saved = IF sv.ok THEN "ok" ELSE "failed",
                               !.prior = sheets[SheetOf[arg.kind]] # <<>>]
    /\ ui_errors' = sv.err
    /\ pc' = "saved"
    /\ StoreFrame

SavedFiles(op, sv) ==
    /\ files' = sv.files
    /\ UNCHANGED sheets
    /\ ret' = [NoResult EXCEPT !.op = op, !.saved = IF sv.ok THEN "ok" ELSE "failed",
                               !.prior = files[StorePath(StoreKindOf[arg.kind],
                                                         current_user)].k # "absent"]
    /\ ui_errors' = sv.err
    /\ pc' = "saved"
    /\ StoreFrame

\* the outcome r of a load that leaves the store alone
Loaded(op, r, fault) ==
    /\ ret' = [op |-> op, saved |-> ret.saved, prior |-> ret.prior, fault |-> fault,
               raised |-> r.raised, exc |-> r.exc, val |-> r.val]
    /\ pc' = "loaded"
    /\ UNCHANGED <<files, sheets, ui_errors>>
    /\ StoreFrame

\* the outcome r of the single-file load of tasks, which may seed the file
LoadedSeeding(op, r, fault) ==
    /\ ret' = [op |-> op, saved |-> ret.saved, prior |-> ret.prior, fault |-> fault,
               raised |-> r.raised, exc |-> r.exc, val |-> r.val]
    /\ pc' = "loaded"
    /\ files' = r.files
    /\ ui_errors' = r.err
    /\ UNCHANGED sheets
    /\ StoreFrame

MyPath ==
    CASE arg.kind = "tasks" -> data_manager.file_path
      [] arg.kind = "updates" -> data_manager.updates_path
      [] arg.kind = "categories" -> data_manager.categories_path
      [] OTHER -> data_manager.requests_path

\* DataManager.save_tasks
SaveTasksCall ==
    /\ pc = "ready" /\ arg.kind = "tasks"
    /\ IF use_sheets
       THEN \E fault \in SheetFaults :
              SavedSheets("save_tasks", save_tasks_sheets(sheets, arg.coll, fault))
       ELSE \E fault \in LocalFaults :
              SavedFiles("save_tasks", save_tasks_local(files, MyPath, arg.coll, fault))

\* DataManager.load_tasks
LoadTasksCall ==
    /\ pc \in {"ready", "saved"} /\ arg.kind = "tasks"
    /\ IF use_sheets
       THEN \E fault \in {"none", "connect"} :
              Loaded("load_tasks", load_tasks_sheets(sheets, today, clock, fault), fault)
       ELSE IF current_user \in Managers
       THEN \E order \in Orderings(ListedFiles(files)) :
              Loaded("load_tasks",
                     load_tasks_manager(files, <<StorePath("flow_data", DefaultUser)>> \o order,
                                        today, clock),
                     "none")
       ELSE \E fault \in LocalFaults :
              LoadedSeeding("load_tasks",
                            load_tasks_local(files, MyPath, today, clock, fault), fault)

\* DataManager.save_requests
SaveRequestsCall ==
    /\ pc = "ready" /\ arg.kind = "requests"
    /\ IF use_sheets
       THEN \E fault \in SheetFaults :
              SavedSheets("save_requests", save_requests_sheets(sheets, arg.coll, fault))
       ELSE \E fault \in LocalFaults :
              SavedFiles("save_requests", save_requests_local(files, MyPath, arg.coll, fault))

\* DataManager.load_requests
LoadRequestsCall ==
    /\ pc \in {"ready", "saved"} /\ arg.kind = "requests"
    /\ IF use_sheets
       THEN \E fault \in {"none", "connect"} :
              Loaded("load_requests", load_requests_sheets(sheets, today, clock, fault), fault)
       ELSE \E fault \in {"none", "open"} :
              Loaded("load_requests", load_requests_local(files, MyPath, today, clock, fault), fault)

\* DataManager.save_updates
SaveUpdatesCall ==
    /\ pc = "ready" /\ arg.kind = "updates"
    /\ IF use_sheets
       THEN \E fault \in SheetFaults :
              SavedSheets("save_updates", save_updates_sheets(sheets, arg.coll, fault))
       ELSE \E fault \in LocalFaults :
              SavedFiles("save_updates", save_updates_local(files, MyPath, arg.coll, fault))

\* DataManager.load_updates, in a process whose string hashing has some seed
LoadUpdatesCall ==
    /\ pc \in {"ready", "saved"} /\ arg.kind = "updates"
    /\ \E seed \in HashSeeds :
         IF use_sheets
         THEN \E fault \in {"none", "connect"} :
                Loaded("load_updates",
                       load_updates_sheets(sheets, today, clock, seed, fault), fault)
         ELSE \E fault \in {"none", "open"} :
                Loaded("load_updates",
                       load_updates_local(files, MyPath, today, clock, seed, fault), fault)

\* DataManager.save_categories
SaveCategoriesCall ==
    /\ pc = "ready" /\ arg.kind = "categories"
    /\ IF use_sheets
       THEN \E fault \in SheetFaults :
              SavedSheets("save_categories", save_categories_sheets(sheets, arg.coll, fault))
       ELSE \E fault \in LocalFaults :
              SavedFiles("save_categories",
                         save_categories_local(files, MyPath, arg.coll, fault))

\* DataManager.load_categories
LoadCategoriesCall ==
    /\ pc \in {"ready", "saved"} /\ arg.kind = "categories"
    /\ IF use_sheets
       THEN \E fault \in {"none", "connect"} :
              Loaded("load_categories", load_categories_sheets(sheets, fault), fault)
       ELSE \E fault \in {"none", "open"} :
              Loaded("load_categories",
                     load_categories_local(files, MyPath, current_user, fault), fault)

\* the outcome r of a second load_tasks by the same caller, who keeps the
\* first result (st.session_state.tasks); time has passed since the first
Reloaded(r, fault) ==
    /\ ret' = [op |-> "load_tasks", saved |-> ret.saved, prior |-> ret.prior,
               fault |-> fault, raised |-> r.raised, exc |-> r.exc, val |-> r.val]
    /\ pc' = "reloaded"
    /\ tasks' = ret.val
    /\ clock' = clock + 1
    /\ files' = r.files
    /\ ui_errors' = r.err
    /\ UNCHANGED <<arg, today, use_sheets, current_user, data_manager, categories,
                   requests, editing_task_id, sheets>>

\* DataManager.load_tasks called again, on local files
ReloadTasksCall ==
    /\ pc = "loaded" /\ arg.kind = "tasks" /\ ~use_sheets
    /\ clock < MaxClock
    /\ IF current_user \in Managers
       THEN \E order \in Orderings(ListedFiles(files)) :
              Reloaded(load_tasks_manager(files, <<StorePath("flow_data", DefaultUser)>> \o order,
                                          today, clock + 1),
                       "none")
       ELSE \E fault \in LocalFaults :
              Reloaded(load_tasks_local(files, MyPath, today, clock + 1, fault), fault)

NextStore ==
    \/ SaveTasksCall
    \/ LoadTasksCall
    \/ ReloadTasksCall
    \/ SaveRequestsCall
    \/ LoadRequestsCall
    \/ SaveUpdatesCall
    \/ LoadUpdatesCall
    \/ SaveCategoriesCall
    \/ LoadCategoriesCall

SpecStore == InitStore /\ [][NextStore]_vars

\* a load that followed a successful save, with the store reachable
RoundTrip(kind) ==
    /\ pc = "loaded"
    /\ arg.kind = kind
    /\ ret.saved = "ok"
    /\ ret.fault = "none"

\* C7: in spreadsheet mode, every task written by save_tasks comes back from
\* load_tasks with attachments and collaborators identical to those saved
C7_RemoteTaskListsRoundTrip ==
    (RoundTrip("tasks") /\ use_sheets) =>
        /\ Len(ret.val) = Len(arg.coll)
        /\ \A i \in 1..Len(arg.coll) :
              /\ ret.val[i].attachments = arg.coll[i].attachments
              /\ ret.val[i].collaborators = arg.coll[i].collaborators

\* C8: in spreadsheet mode, every request written by save_requests comes back
\* from load_requests with attachments and nf_attachments that are lists
\* equal to those saved
C8_RemoteRequestListsRoundTrip ==
    (RoundTrip("requests") /\ use_sheets) =>
        /\ Len(ret.val) = Len(arg.coll)
        /\ \A i \in 1..Len(arg.coll) :
              /\ ret.val[i].attachments.k = "list"
              /\ ret.val[i].nf_attachments.k = "list"
              /\ ret.val[i].attachments = arg.coll[i].attachments
              /\ ret.val[i].nf_attachments = arg.coll[i].nf_attachments

\* the same keys, each with the same fields and values
SameMapping(a, b) ==
    /\ a.k = "dict"
    /\ \A i \in 1..Len(a.v) : \E j \in 1..Len(b.v) : a.v[i] = b.v[j]
    /\ \A j \in 1..Len(b.v) : \E i \in 1..Len(a.v) : a.v[i] = b.v[j]

\* C9: in both backends, the mapping load_categories returns after a
\* successful save_categories equals the mapping saved, owner included
C9_CategoriesRoundTrip ==
    RoundTrip("categories") => SameMapping(ret.val, arg.coll)

\* an empty list, or an empty mapping where the operation returns a mapping
EmptyResult ==
    IF arg.kind = "categories" THEN ret.val = PDict(<<>>) ELSE ret.val = <<>>

\* a load whose reading or parsing of the store failed
FailedLoad == pc = "loaded" /\ ret.exc # "none"

-----------------------------------------------------------------------------
(* Two sessions that run save_tasks on the same store at the same time: the  *)
(* steps of the two calls interleave freely, as nothing in save_tasks locks  *)
(* the worksheet or the file.                                               *)

Sessions == {"s1", "s2"}
RaceColls ==
    {<<>>, <<SessionTask(1, "Média")>>,
     <<SessionTask(2, "Urgente"), SessionTask(3, "Média")>>}

\* pc[s]: "call", then "cleared" and "headed" (worksheet) or "opened" (file),
\* then "done"; ret is the order in which the calls returned
InitRace ==
    /\ today = <<2026, 1, 6>>
    /\ clock = 1
    /\ use_sheets \in BOOLEAN
    /\ current_user = DefaultUser
    /\ data_manager = DataManager_init(current_user)
    /\ tasks = <<>>
    /\ categories = PDict(<<>>)
    /\ requests = <<>>
    /\ ui_errors = 0
    /\ editing_task_id = 0
    /\ arg \in [Sessions -> RaceColls]
    /\ pc = [s \in Sessions |-> "call"]
    /\ ret = <<>>
    /\ files = [p \in AllPaths |-> FileAbsent]
    /\ \E found \in {<<>>, <<HeaderRow(TaskDictKeys)>> \o TaskRows(<<SessionTask(1, "Média")>>)} :
         sheets = [w \in Worksheets |-> IF w = "Tasks" /\ use_sheets THEN found ELSE <<>>]

RaceFrame == UNCHANGED <<arg, today, clock, use_sheets, current_user, data_manager,
                         tasks, categories, requests, ui_errors, editing_task_id>>

\* a call moves on; the order of returns is recorded when it is done
Stepped(s, next) ==
    /\ pc' = [pc EXCEPT ![s] = next]
    /\ ret' = IF next = "done" THEN Append(ret, s) ELSE ret
    /\ RaceFrame

\* ws.clear(); with no task there is no header and the call returns True
ClearStep(s) ==
    /\ use_sheets /\ pc[s] = "call"
    /\ sheets' = [sheets EXCEPT !["Tasks"] = <<>>]
    /\ UNCHANGED files
    /\ Stepped(s, IF arg[s] = <<>> THEN "done" ELSE "cleared")

\* ws.append_row(headers)
HeaderStep(s) ==
    /\ use_sheets /\ pc[s] = "cleared"
    /\ sheets' = [sheets EXCEPT !["Tasks"] = Append(@, HeaderRow(TaskDictKeys))]
    /\ UNCHANGED files
    /\ Stepped(s, "headed")

\* ws.append_rows(rows); return True
RowsStep(s) ==
    /\ use_sheets /\ pc[s] = "headed"
    /\ sheets' = [sheets EXCEPT !["Tasks"] = @ \o TaskRows(arg[s])]
    /\ UNCHANGED files
    /\ Stepped(s, "done")

\* open(self.file_path, "w"): the file is truncated and the descriptor of
\* the call stands at offset 0
OpenStep(s) ==
    /\ ~use_sheets /\ pc[s] = "call"
    /\ files' = [files EXCEPT ![data_manager.file_path] = FileGarbage]
    /\ UNCHANGED sheets
    /\ Stepped(s, "opened")

\* the text of a file in records: those of its array, or what a cut or
\* overwritten text still holds
Chunks(c) == IF c.k = "json" THEN c.v.v ELSE c.v

\* a text written at offset 0 over the present content: what lies beyond
\* its end stays (records stand for stretches of text of one length)
Overlay(c, mine) ==
    IF Len(mine) >= Len(Chunks(c)) THEN FileJson([k |-> "array", v |-> mine])
    ELSE [k |-> "garbage", v |-> mine \o SubSeq(Chunks(c), Len(mine) + 1, Len(Chunks(c)))]

\* json.dump(data, f) and the close of the with block, which flushes the
\* text at the descriptor's offset; return True
WriteStep(s) ==
    /\ ~use_sheets /\ pc[s] = "opened"
    /\ files' = [files EXCEPT ![data_manager.file_path] =
                                Overlay(@, JsonObjects(TaskDicts(arg[s])).v)]
    /\ UNCHANGED sheets
    /\ Stepped(s, "done")

NextRace ==
    \/ \E s \in Sessions : ClearStep(s)
    \/ \E s \in Sessions : HeaderStep(s)
    \/ \E s \in Sessions : RowsStep(s)
    \/ \E s \in Sessions : OpenStep(s)
    \/ \E s \in Sessions : WriteStep(s)

SpecRace == InitRace /\ [][NextRace]_vars

\* C16: when two sessions have each run save_tasks on the same store, in
\* whatever order their steps interleaved, the store holds exactly what a
\* save of the collection of the session that returned last writes: never
\* rows of both, a header among the data rows, or a partial collection
C16_LastWriterWins ==
    (\A s \in Sessions : pc[s] = "done") =>
        IF use_sheets
        THEN sheets = save_tasks_sheets([w \in Worksheets |-> <<>>], arg[ret[Len(ret)]],
                                        "none").sheets
        ELSE files[data_manager.file_path]
               = FileJson(JsonObjects(TaskDicts(arg[ret[Len(ret)]])))

-----------------------------------------------------------------------------
(* The update log of one server process: add_update, delete_update and       *)
(* edit_update, each a load_updates, a change of the list and a              *)
(* save_updates, on a store found as another run or an earlier version left  *)
(* it.  arg.seed is the seed of the process's string hashing.                *)

MaxOps == 3

\* datetime.now().strftime("%Y-%m-%d %H:%M:%S"), the clock giving the seconds
Timestamp(now, ms) ==
    strftime(now) \o <<" ", "0", "0", ":", "0", "0", ":", "0", DigitChar(ms)>>
EditedMark == <<" ", "(", "e", "d", "i", "t", "a", "d", "o", ")">>

\* TaskUpdate(task_id=..., content=...): timestamp and id by default_factory
NewUpdate(task_id, content, now, ms) ==
    [task_id |-> PInt(task_id), content |-> PStr(content),
     timestamp |-> PStr(Timestamp(now, ms)), user |-> PAtom("Maicon"), id |-> PInt(ms)]

UpdateTexts == {<<"o", "k">>, <<"0", "0", "7">>}
LegacyKeys == <<"task_id", "content", "timestamp", "user">>
\* a record of the version that had no id field
LegacyUpdate ==
    [task_id |-> PInt(1), content |-> PStr(<<"o", "k">>),
     timestamp |-> PStr(Timestamp(<<2026, 1, 6>>, 1)), user |-> PAtom("Maicon")]
FoundUpdates ==
    <<NewUpdate(1, <<"o", "k">>, <<2026, 1, 6>>, 1), NewUpdate(2, <<"o", "k">>, <<2026, 1, 6>>, 2)>>

FoundUpdateFiles ==
    {FileAbsent,
     FileJson(JsonObjects(FoundUpdates)),
     FileJson(JsonObjects(<<LegacyUpdate, LegacyUpdate>>))}
FoundUpdateSheets ==
    {<<>>,
     <<HeaderRow(UpdateKeys)>> \o UpdateRows(FoundUpdates),
     <<HeaderRow(LegacyKeys), ValuesRow(LegacyUpdate, LegacyKeys),
       ValuesRow(LegacyUpdate, LegacyKeys)>>}

\* ret is what the last call did: before and after are what load_updates
\* returned inside the call and what it returns once the call is over
InitUpdates ==
    /\ today = <<2026, 1, 6>>
    /\ clock = MaxClock + 1
    /\ use_sheets \in BOOLEAN
    /\ current_user = DefaultUser
    /\ data_manager = DataManager_init(current_user)
    /\ tasks = <<>>
    /\ categories = PDict(<<>>)
    /\ requests = <<>>
    /\ ui_errors = 0
    /\ editing_task_id = 0
    /\ arg \in {[seed |-> h] : h \in HashSeeds}
    /\ pc = "run"
    /\ ret = [op |-> "none", n |-> 0, fault |-> "none", ok |-> TRUE, id |-> PNone,
              content |-> PNone, before |-> <<>>, after |-> <<>>]
    /\ \E f \in FoundUpdateFiles, sh \in FoundUpdateSheets :
         /\ use_sheets => f = FileAbsent
         /\ ~use_sheets => sh = <<>>
         /\ files = [p \in AllPaths |->
                       IF p = data_manager.updates_path THEN f ELSE FileAbsent]
         /\ sheets = [w \in Worksheets |-> IF w = "Updates" THEN sh ELSE <<>>]

\* DataManager.load_updates of this process on the stores fs, sh
UpdatesView(fs, sh, now, ms, seed, fault) ==
    IF use_sheets
    THEN load_updates_sheets(sh, now, ms, seed, IF fault = "none" THEN "none" ELSE "connect").val
    ELSE load_updates_local(fs, data_manager.updates_path, now, ms, seed,
                            IF fault = "none" THEN "none" ELSE "open").val

UpdatesFrame == UNCHANGED <<arg, pc, today, use_sheets, current_user, data_manager,
                            tasks, categories, requests, ui_errors, editing_task_id>>

\* the outcome sv of save_updates, on either backend
UpdatesSavedSheets(op, fault, id, content, before, ms, sv) ==
    /\ sheets' = sv.sheets
    /\ UNCHANGED files
    /\ clock' = ms
    /\ ret' = [op |-> op, n |-> ret.n + 1, fault |-> fault, ok |-> sv.ok, id |-> id,
               content |-> content, before |-> before,
               after |-> UpdatesView(files, sv.sheets, today, ms, arg.seed, "none")]
    /\ UpdatesFrame

UpdatesSavedFiles(op, fault, id, content, before, ms, sv) ==
    /\ files' = sv.files
    /\ UNCHANGED sheets
    /\ clock' = ms
    /\ ret' = [op |-> op, n |-> ret.n + 1, fault |-> fault, ok |-> sv.ok, id |-> id,
               content |-> content, before |-> before,
               after |-> UpdatesView(sv.files, sheets, today, ms, arg.seed, "none")]
    /\ UpdatesFrame

\* self.save_updates(updates) at the end of a call that loaded before
SaveUpdates(op, fault, id, content, before, ms, us) ==
    IF use_sheets
    THEN UpdatesSavedSheets(op, fault, id, content, before, ms,
                            save_updates_sheets(sheets, us, "none"))
    ELSE UpdatesSavedFiles(op, fault, id, content, before, ms,
                           save_updates_local(files, data_manager.updates_path, us, "none"))

\* updates.append(update)
Appended(op, fault, upd, before, ms) ==
    SaveUpdates(op, fault, upd.id, upd.content, before, ms, Append(before, upd))

\* the publish button: TaskUpdate(task_id, content), then add_update; the
\* time of the call is not before that of the last one
AddUpdateCall ==
    /\ ret.n < MaxOps
    /\ \E task_id \in {1, 2}, content \in UpdateTexts, ms \in clock..(MaxClock + 2),
          fault \in {"none", "read"} :
         Appended("add_update", fault, NewUpdate(task_id, content, today, ms),
                  UpdatesView(files, sheets, today, ms, arg.seed, fault), ms)

\* the ids a page shows (those load_updates gave) and one that none has
ShownIds == {u.id : u \in {ret.after[i] : i \in 1..Len(ret.after)}} \cup {PInt(99)}

\* updates = [u for u in updates if u.id != update_id]
Deleted(op, fault, id, before, ms) ==
    SaveUpdates(op, fault, id, PNone, before, ms, WithoutId(before, id))

\* DataManager.delete_update
DeleteUpdateCall ==
    /\ ret.n < MaxOps
    /\ \E id \in ShownIds, fault \in {"none", "read"} :
         Deleted("delete_update", fault, id,
                 UpdatesView(files, sheets, today, clock, arg.seed, fault), clock)

\* for u in updates: if u.id == update_id: (content, timestamp set); break
RECURSIVE EditFirst(_, _, _, _)
EditFirst(us, id, content, stamp) ==
    IF us = <<>> THEN <<>>
    ELSE IF Head(us).id = id
    THEN <<[Head(us) EXCEPT !.content = content, !.timestamp = stamp]>> \o Tail(us)
    ELSE <<Head(us)>> \o EditFirst(Tail(us), id, content, stamp)

Edited(op, fault, id, content, before, ms) ==
    SaveUpdates(op, fault, id, content, before, ms,
                EditFirst(before, id, content, PStr(Timestamp(today, ms) \o EditedMark)))

\* DataManager.edit_update
EditUpdateCall ==
    /\ ret.n < MaxOps
    /\ \E id \in ShownIds, content \in UpdateTexts, ms \in clock..(MaxClock + 2),
          fault \in {"none", "read"} :
         Edited("edit_update", fault, id, PStr(content),
                UpdatesView(files, sheets, today, ms, arg.seed, fault), ms)

\* DataManager.load_updates (get_task_updates filters its result)
LoadUpdatesView ==
    /\ ret.op # "load_updates"
    /\ \E fault \in {"none", "read"} :
         ret' = [op |-> "load_updates", n |-> ret.n, fault |-> fault, ok |-> TRUE,
                 id |-> PNone, content |-> PNone,
                 before |-> UpdatesView(files, sheets, today, clock, arg.seed, fault),
                 after |-> UpdatesView(files, sheets, today, clock, arg.seed, fault)]
    /\ UNCHANGED <<files, sheets, clock>>
    /\ UpdatesFrame

NextUpdates ==
    \/ AddUpdateCall
    \/ DeleteUpdateCall
    \/ EditUpdateCall
    \/ LoadUpdatesView

SpecUpdates == InitUpdates /\ [][NextUpdates]_vars

\* load_tasks of one user's local store, found absent, with the write working
SeedingLoad ==
    /\ pc \in {"ready", "saved"} /\ pc' = "loaded"
    /\ arg.kind = "tasks" /\ ~use_sheets
    /\ current_user \notin Managers
    /\ files[MyPath].k = "absent"
    /\ ret'.fault = "none"

\* the load_tasks that follows a seeding one, with the store readable
LoadAfterSeeding ==
    /\ pc = "loaded" /\ pc' = "reloaded"
    /\ current_user \notin Managers
    /\ ret.saved = "no" /\ ret.fault = "none"
    /\ ret.val = InitialTasks(today, clock)
    /\ ret'.fault = "none"

\* C11: on local files, for the default and every ordinary identity,
\* load_tasks on an absent store returns exactly one example task and leaves
\* a store holding that task (the write working); the next load_tasks
\* returns that same task, id included, and writes nothing
C11_SeedOncePersisted ==
    [][/\ SeedingLoad =>
            /\ ret'.raised = "none"
            /\ Len(ret'.val) = 1
            /\ ret'.val[1].title = SeedTitle
            /\ files'[MyPath] = FileJson(JsonObjects(TaskDicts(ret'.val)))
       /\ LoadAfterSeeding =>
            /\ ret'.val = ret.val
            /\ ret'.val[1].id = ret.val[1].id
            /\ files' = files]_vars

\* a second load has returned the example task that the first one seeded
\* at an earlier time
C11_Witness ==
    /\ pc = "reloaded"
    /\ current_user \notin Managers
    /\ ret.fault = "none"
    /\ tasks = InitialTasks(today, clock - 1)
    /\ ret.val = tasks
    /\ files[MyPath] = FileJson(JsonObjects(TaskDicts(tasks)))

\* save_tasks of the empty collection, by an identity whose store existed,
\* followed by load_tasks
EmptySavedThenLoaded ==
    /\ RoundTrip("tasks")
    /\ ret.op = "load_tasks"
    /\ arg.coll = <<>>
    /\ ret.prior

\* C12 as stated: for any identity with a prior save, the manager
\* identities included, save_tasks of the empty collection followed by
\* load_tasks returns the empty collection
C12_EmptySaveLoadsEmpty ==
    EmptySavedThenLoaded => ret.val = <<>>

\* the ids of the task records that the local store at path p holds
StoredIds(p) ==
    IF files[p].k = "json" /\ files[p].v.k = "array"
    THEN {JsonLoad(files[p].v.v[i].v.id) :
            i \in {j \in 1..Len(files[p].v.v) :
                     files[p].v.v[j].k = "object" /\ "id" \in DOMAIN files[p].v.v[j].v}}
    ELSE {}

\* C12: save_tasks of the empty collection followed by load_tasks returns
\* the empty collection in spreadsheet mode, and on local files for the
\* default and the ordinary identities; a manager identity on local files
\* gets the tasks of the other stores, none from its own
C12_EmptySaveLoadsEmptyOwn ==
    EmptySavedThenLoaded =>
        IF ~use_sheets /\ current_user \in Managers
        THEN /\ StoredIds(MyPath) = {}
             /\ \A i \in 1..Len(ret.val) :
                   \E p \in AllPaths \ {MyPath} : ret.val[i].id \in StoredIds(p)
        ELSE ret.val = <<>>

\* an ordinary identity whose store existed has saved the empty collection
\* and loaded the empty collection back from the file
C12_Witness ==
    /\ EmptySavedThenLoaded
    /\ ~use_sheets
    /\ current_user \in OrdinaryUsers
    /\ files[MyPath] = FileJson(JsonArray(<<>>))
    /\ ret.val = <<>>

\* the ids of the records at path p from which Task.from_dict builds a task
LoadableIds(p) ==
    IF files[p].k = "json" /\ files[p].v.k = "array"
    THEN {JsonLoad(files[p].v.v[i].v.id) :
            i \in {j \in 1..Len(files[p].v.v) :
                     /\ files[p].v.v[j].k = "object"
                     /\ "id" \in DOMAIN files[p].v.v[j].v
                     /\ Task_from_dict(DictOfJson(files[p].v.v[j]), today, clock).exc = "none"}}
    ELSE {}

\* C13: on local files, load_tasks of a manager identity returns no two tasks
\* with the same id, and exactly one task for every task id present in the
\* default store or in a per-user Tasks store
C13_ManagerAggregateComplete ==
    (/\ pc = "loaded" /\ arg.kind = "tasks" /\ ret.op = "load_tasks"
     /\ ~use_sheets /\ current_user \in Managers) =>
        /\ \A i, j \in 1..Len(ret.val) : i # j => ret.val[i].id # ret.val[j].id
        /\ \A p \in {q \in AllPaths : q[1] = "flow_data"} :
              \A id \in LoadableIds(p) :
                 Cardinality({i \in 1..Len(ret.val) : ret.val[i].id = id}) = 1

\* a step of a logged-in manager that sets the feedback note of task i
FeedbackStep(i) ==
    /\ pc = "run" /\ current_user \in Managers
    /\ i \in 1..Len(tasks)
    /\ tasks' # tasks
    /\ Len(tasks') = Len(tasks)
    /\ tasks' = [tasks EXCEPT ![i].manager_feedback = tasks'[i].manager_feedback]

\* the record rec with the feedback note of task t, when it is t's record
NoteApplied(rec, t) ==
    IF rec.k = "object" /\ "id" \in DOMAIN rec.v /\ JsonLoad(rec.v.id) = t.id
    THEN [rec EXCEPT !.v.manager_feedback = JsonDump(t.manager_feedback)]
    ELSE rec

\* the store content c with only the feedback note of task t changed
FileWithNote(c, t) ==
    IF c.k = "json" /\ c.v.k = "array"
    THEN [c EXCEPT !.v.v = [j \in 1..Len(c.v.v) |-> NoteApplied(c.v.v[j], t)]]
    ELSE c

\* C14: when a manager saves or removes a feedback note on a task, every
\* store is left as it was except for the manager_feedback field of that
\* task's record: none is overwritten with the aggregate collection
C14_FeedbackOnlyChange ==
    [][\A i \in 1..Len(tasks) :
          FeedbackStep(i) =>
             \A p \in AllPaths : files'[p] = FileWithNote(files[p], tasks'[i])]_vars

\* the session has logged in (the rerun after the login included)
LoggedIn == pc \in {"rerun", "run"}

\* C15: on local files, the gateway of a logged-in session holds the paths
\* of the session's identity (suffixed for every identity but the default
\* one), and no step of a session logged in as another identity than the
\* default one writes an un-suffixed store
C15_IdentityStoresOnly ==
    /\ [](pc = "run" => data_manager = DataManager_init(current_user))
    /\ [][(LoggedIn /\ current_user # DefaultUser) =>
             \A kind \in StoreKinds : files'[<<kind, "">>] = files[<<kind, "">>]]_vars

\* the list s without its element at position i
RemoveAt(s, i) == SubSeq(s, 1, i - 1) \o SubSeq(s, i + 1, Len(s))

\* a call whose own load_updates and save_updates both worked
CallDone(op) == ret.op = op /\ ret.fault = "none" /\ ret.ok

\* C17: delete_update(id) removes exactly the one update with that id; every
\* other update, of the same task and of other tasks, is still stored with
\* unchanged fields and in unchanged order
C17_DeleteExactlyOne ==
    CallDone("delete_update") =>
        IF \E i \in 1..Len(ret.before) : ret.before[i].id = ret.id
        THEN \E i \in 1..Len(ret.before) :
                /\ ret.before[i].id = ret.id
                /\ ret.after = RemoveAt(ret.before, i)
        ELSE ret.after = ret.before

\* C18: edit_update(id, c) changes only the update with that id: its content
\* becomes c and its timestamp the current time followed by one edited
\* marker, its id, task_id, user and position stay, all other updates stay;
\* when no update has that id the collection is unchanged
C18_EditOnlyOne ==
    CallDone("edit_update") =>
        IF \E i \in 1..Len(ret.before) : ret.before[i].id = ret.id
        THEN \E i \in 1..Len(ret.before) :
                /\ ret.before[i].id = ret.id
                /\ ret.after =
                     [ret.before EXCEPT
                        ![i].content = ret.content,
                        ![i].timestamp = PStr(Timestamp(today, clock) \o EditedMark)]
        ELSE ret.after = ret.before

\* the store holds records without an id: those of the earlier version
LegacyStore ==
    IF use_sheets
    THEN sheets["Updates"] # <<>> /\ sheets["Updates"][1] = HeaderRow(LegacyKeys)
    ELSE /\ files[data_manager.updates_path].k = "json"
         /\ \E i \in 1..Len(files[data_manager.updates_path].v.v) :
               "id" \notin DOMAIN files[data_manager.updates_path].v.v[i].v

IdsOf(us) == [i \in 1..Len(us) |-> us[i].id]

\* C19: the ids that load_updates derives for the records without an id of
\* one store are the same every time the store is read, in whatever
\* process, and differ between two records at different positions, in
\* either backend
C19_DerivedIdsStable ==
    (ret.op = "load_updates" /\ ret.fault = "none" /\ LegacyStore) =>
        /\ \A seed \in HashSeeds :
              IdsOf(UpdatesView(files, sheets, today, clock, seed, "none")) = IdsOf(ret.after)
        /\ \A i, j \in 1..Len(ret.after) : i # j => ret.after[i].id # ret.after[j].id

\* C20: after any sequence of load_updates, add_update, edit_update and
\* delete_update every update of the collection has an id and no two
\* updates have the same id
C20_UpdateIdsUnique ==
    ret.fault = "none" =>
        /\ \A i \in 1..Len(ret.after) : ret.after[i].id.k = "int"
        /\ \A i, j \in 1..Len(ret.after) : i # j => ret.after[i].id # ret.after[j].id

-----------------------------------------------------------------------------
\* C21: every failed write of the gateway (save_tasks, save_updates,
\* save_requests, save_categories), in either backend, shows an error to the
\* user interface and gives its caller a False success flag
C21_FailedWriteReported ==
    (pc = "saved" /\ ret.saved # "ok") => (ret.saved = "failed" /\ ui_errors > 0)

-----------------------------------------------------------------------------
(* The category dialog of a logged-in session: manage_categories_dialog.     *)
(* The gateway is the one initialize_app built before the login.            *)

\* the identity as the owner field stores it
OwnerOf(user) == PAtom(user)

OwnedEntry(key, icon, name, user) ==
    CategoryEntry(PAtom(key),
                  [color |-> PAtom("#ef4444"), icon |-> PAtom(icon), name |-> PAtom(name),
                   bg |-> PAtom("#ef444422"), owner |-> OwnerOf(user)])

\* the text inputs of the dialog and the key f"{new_icon} {new_name}"
NewCategoryInputs ==
    {[icon |-> "x", name |-> "Novo", key |-> "x Novo"],
     [icon |-> "clipboard", name |-> "Outros", key |-> "clipboard Outros"],
     [icon |-> "x", name |-> "", key |-> "x "]}

\* the category stores a session may find
FoundCategoryFiles ==
    {FileAbsent,
     FileJson(JsonOfCategories(
        PDict(DEFAULT_CATEGORY_OPTIONS.v \o <<OwnedEntry("y Meu", "y", "Meu", "2858700")>>)))}
FoundCategorySheets ==
    {<<>>,
     <<HeaderRow(<<"color", "icon", "name", "bg", "key">>)>>
       \o CategoryRows(DEFAULT_CATEGORY_OPTIONS.v)}

KeysOf(cats) == {cats.v[i].key : i \in 1..Len(cats.v)}

\* st.session_state.categories = data_manager.load_categories()
SessionCategories(fs, sh, user) ==
    IF use_sheets THEN load_categories_sheets(sh, "none").val
    ELSE load_categories_local(fs, data_manager.categories_path, user, "none").val

\* a session after login and rerun; arg.had holds the keys it started with
InitCategories ==
    /\ today = <<2026, 1, 6>>
    /\ clock = 1
    /\ use_sheets \in BOOLEAN
    /\ current_user \in {DefaultUser} \cup OrdinaryUsers \cup Managers
    /\ data_manager = DataManager_init("")
    /\ tasks = <<>>
    /\ requests = <<>>
    /\ ui_errors = 0
    /\ editing_task_id = 0
    /\ pc = "run"
    /\ ret = [op |-> "none", n |-> 0, key |-> PNone, ok |-> TRUE]
    /\ \E f \in FoundCategoryFiles, sh \in FoundCategorySheets :
         /\ use_sheets => f = FileAbsent
         /\ ~use_sheets => sh = <<>>
         /\ files = [p \in AllPaths |->
                       IF p = data_manager.categories_path THEN f ELSE FileAbsent]
         /\ sheets = [w \in Worksheets |-> IF w = "Categories" THEN sh ELSE <<>>]
         /\ categories = SessionCategories(files, sheets, current_user)
    /\ arg = [had |-> KeysOf(categories)]

CategoriesFrame == UNCHANGED <<arg, pc, today, clock, use_sheets, current_user,
                               data_manager, tasks, requests, editing_task_id>>

\* st.session_state.data_manager.save_categories(cats);
\* st.session_state.categories = cats
CategoriesSavedSheets(op, key, cats, sv) ==
    /\ categories' = cats
    /\ sheets' = sv.sheets
    /\ ui_errors' = sv.err
    /\ ret' = [op |-> op, n |-> ret.n + 1, key |-> key, ok |-> sv.ok]
    /\ UNCHANGED files

CategoriesSavedFiles(op, key, cats, sv) ==
    /\ categories' = cats
    /\ files' = sv.files
    /\ ui_errors' = sv.err
    /\ ret' = [op |-> op, n |-> ret.n + 1, key |-> key, ok |-> sv.ok]
    /\ UNCHANGED sheets

SaveCategories(op, key, cats) ==
    IF use_sheets
    THEN \E fault \in SheetFaults :
           CategoriesSavedSheets(op, key, cats, save_categories_sheets(sheets, cats, fault))
    ELSE \E fault \in LocalFaults :
           CategoriesSavedFiles(op, key, cats,
                                save_categories_local(files, data_manager.categories_path,
                                                      cats, fault))

\* the Add button: if new_name and key not in cats, the entry is put, saved
CategoryAdd ==
    /\ pc = "run" /\ ret.n < MaxOps
    /\ \E in \in NewCategoryInputs :
         IF in.name # "" /\ PAtom(in.key) \notin KeysOf(categories)
         THEN SaveCategories("add", PAtom(in.key),
                PDict(Append(categories.v,
                             OwnedEntry(in.key, in.icon, in.name, current_user))))
         ELSE /\ ret' = [op |-> "add", n |-> ret.n + 1, key |-> PAtom(in.key), ok |-> TRUE]
              /\ UNCHANGED <<categories, files, sheets, ui_errors>>
    /\ CategoriesFrame

\* is_admin of the dialog
DialogAdmins == {"2949400", "2484901"}

\* val.get("owner")
OwnerIn(val) == IF "owner" \in DOMAIN val THEN val.owner ELSE PNone

\* the entries listed for the user, with a delete button that is enabled
Deletable(entry, user) ==
    \/ user \in DialogAdmins
    \/ OwnerIn(entry.val) = OwnerOf(user)

\* the delete button of one listed entry: del cats[key], save
CategoryDelete ==
    /\ pc = "run" /\ ret.n < MaxOps
    /\ \E i \in 1..Len(categories.v) :
         /\ Deletable(categories.v[i], current_user)
         /\ SaveCategories("delete", categories.v[i].key,
                           PDict(RemoveAt(categories.v, i)))
    /\ CategoriesFrame

NextCategories ==
    \/ CategoryAdd
    \/ CategoryDelete

SpecCategories == InitCategories /\ [][NextCategories]_vars

\* C22: after any sequence of category add and delete operations by any
\* identity, each default category that the session's mapping held is still
\* in the mapping: no identity can delete a default category
C22_DefaultsKept ==
    \A d \in KeysOf(DEFAULT_CATEGORY_OPTIONS) :
        d \in arg.had => d \in KeysOf(categories)

-----------------------------------------------------------------------------
(* DashboardView.calculate_stats: one call on a collection, at some current  *)
(* date.  Dates are <<year, month, day>>.                                   *)

MaxStatTasks == 2

IsLeap(y) == y % 4 = 0 /\ (y % 100 # 0 \/ y % 400 = 0)
DaysInMonth(y, m) ==
    IF m = 2 THEN (IF IsLeap(y) THEN 29 ELSE 28)
    ELSE IF m \in {4, 6, 9, 11} THEN 30 ELSE 31
DaysBeforeYear(y) == (y - 1) * 365 + (y - 1) \div 4 - (y - 1) \div 100 + (y - 1) \div 400
RECURSIVE DaysBeforeMonth(_, _)
DaysBeforeMonth(y, m) ==
    IF m = 1 THEN 0 ELSE DaysBeforeMonth(y, m - 1) + DaysInMonth(y, m - 1)

\* date.toordinal(): 1 for the first of January of year 1, a Monday
toordinal(ymd) == DaysBeforeYear(ymd[1]) + DaysBeforeMonth(ymd[1], ymd[2]) + ymd[3]

\* date.weekday(): Monday is 0
weekday(ymd) == (toordinal(ymd) + 6) % 7

\* the dates that the date arithmetic of a call can give
Calendar ==
    {<<y, m, d>> \in {2025, 2026} \X {1, 12} \X (1..31) :
        (y = 2025 /\ m = 12) \/ (y = 2026 /\ m = 1)}

\* date.fromordinal(n)
fromordinal(n) == CHOOSE ymd \in Calendar : toordinal(ymd) = n

\* d + timedelta(days=k)
timedelta_add(ymd, k) == fromordinal(toordinal(ymd) + k)

\* a <= b for two texts, as Python compares str
LexLeq(a, b) == ~LexLess(b, a)

\* len([t for t in tasks if ...])
CountOf(ts, Test(_)) == Cardinality({i \in 1..Len(ts) : Test(ts[i])})

\* the record calculate_stats returns from the week's first and last day
StatsOf(ts, today_str, week_start_str, week_end_str) ==
    [total |-> Len(ts),
     completed |-> CountOf(ts, LAMBDA t : t.status = PAtom("Concluído")),
     in_progress |-> CountOf(ts, LAMBDA t : t.status = PAtom("Em Andamento")),
     urgent |-> CountOf(ts, LAMBDA t : t.priority \in {PAtom("Alta"), PAtom("Urgente")}),
     overdue |-> CountOf(ts, LAMBDA t : /\ LexLess(t.due_date.v, today_str)
                                        /\ t.status # PAtom("Concluído")),
     this_week |-> CountOf(ts, LAMBDA t : /\ LexLeq(week_start_str, t.due_date.v)
                                          /\ LexLeq(t.due_date.v, week_end_str))]

\* week_start = today - timedelta(days=today.weekday())
WeekStart(now) == timedelta_add(now, 0 - weekday(now))

\* mutant: the week ends on the Saturday
calculate_stats_ShortWeek(ts, now) ==
    StatsOf(ts, strftime(now), strftime(WeekStart(now)),
            strftime(timedelta_add(WeekStart(now), 5)))

\* DashboardView.calculate_stats, with datetime.now() on the day now
calculate_stats(ts, now) ==
    StatsOf(ts, strftime(now), strftime(WeekStart(now)),
            strftime(timedelta_add(WeekStart(now), 6)))

\* Task.is_urgent_today, with datetime.now() on the day now
is_urgent_today(t, now) ==
    /\ t.priority = PAtom("Urgente")
    /\ t.status # PAtom("Concluído")
    /\ t.due_date = PStr(strftime(now))

\* current dates: a Monday, a Sunday, and a Wednesday whose week runs into
\* the next year
StatDays == {<<2026, 1, 5>>, <<2026, 1, 11>>, <<2025, 12, 31>>}
\* due dates on both sides of the ends of those weeks, and a later month
StatDues ==
    {<<2025, 12, 28>>, <<2025, 12, 29>>, <<2026, 1, 4>>, <<2026, 1, 5>>,
     <<2026, 1, 11>>, <<2026, 1, 12>>, <<2026, 10, 1>>}
\* status and priority of the tasks
StatKinds ==
    {<<"Pendente", "Média">>, <<"Em Andamento", "Alta">>, <<"Concluído", "Urgente">>}

\* a task as the forms build it, with the given due date
StatTask(status, prio, due, ms) ==
    [SessionTask(ms, prio) EXCEPT !.status = PAtom(status),
                                  !.due_date = PStr(strftime(due))]

StatPicks == StatKinds \X StatDues

NoStats ==
    [total |-> 0, completed |-> 0, in_progress |-> 0, urgent |-> 0, overdue |-> 0,
     this_week |-> 0]

\* arg.dues[i] is the due date of tasks[i] as a date
InitStats ==
    /\ today \in StatDays
    /\ clock = 1
    /\ use_sheets = FALSE
    /\ current_user = DefaultUser
    /\ data_manager = DataManager_init(current_user)
    /\ categories = PDict(<<>>)
    /\ requests = <<>>
    /\ files = [p \in AllPaths |-> FileAbsent]
    /\ sheets = [w \in Worksheets |-> <<>>]
    /\ ui_errors = 0
    /\ editing_task_id = 0
    /\ \E picks \in TokSeqs(StatPicks, MaxStatTasks) :
         /\ tasks = [i \in 1..Len(picks) |->
                       StatTask(picks[i][1][1], picks[i][1][2], picks[i][2], i)]
         /\ arg = [dues |-> [i \in 1..Len(picks) |-> picks[i][2]]]
    /\ ret = [stats |-> NoStats]
    /\ pc = "ready"

StatsFrame == UNCHANGED <<arg, today, clock, use_sheets, current_user, data_manager,
                          tasks, categories, requests, files, sheets, ui_errors,
                          editing_task_id>>

\* DashboardView.render_kpis: stats = cls.calculate_stats(tasks)
CalculateStatsCall ==
    /\ pc = "ready"
    /\ ret' = [ret EXCEPT !.stats = calculate_stats(tasks, today)]
    /\ pc' = "stats"
    /\ StatsFrame

NextStats == CalculateStatsCall

SpecStats == InitStats /\ [][NextStats]_vars

\* the tasks of the collection, by position, that satisfy a test
Those(Test(_, _)) == {i \in 1..Len(tasks) : Test(tasks[i], arg.dues[i])}

\* the Monday-to-Sunday week that holds the day now has the day d in it
InWeekOf(now, d) ==
    \E monday \in toordinal(now) - 6 .. toordinal(now) :
        /\ (monday - 1) % 7 = 0
        /\ monday <= toordinal(d) /\ toordinal(d) <= monday + 6

\* C23: calculate_stats returns total = number of tasks, completed = tasks
\* with status Concluído, in_progress = tasks with status Em Andamento,
\* urgent = tasks with priority Alta or Urgente, overdue = tasks due before
\* today and not Concluído, this_week = tasks due from the Monday to the
\* Sunday of the week containing today, both ends included
C23_StatsCounts ==
    pc = "stats" =>
        /\ ret.stats.total = Len(tasks)
        /\ ret.stats.completed =
             Cardinality(Those(LAMBDA t, d : t.status.v = "Concluído"))
        /\ ret.stats.in_progress =
             Cardinality(Those(LAMBDA t, d : t.status.v = "Em Andamento"))
        /\ ret.stats.urgent =
             Cardinality(Those(LAMBDA t, d : t.priority.v \in {"Alta", "Urgente"}))
        /\ ret.stats.overdue =
             Cardinality(Those(LAMBDA t, d : /\ toordinal(d) < toordinal(today)
                                             /\ t.status.v # "Concluído"))
        /\ ret.stats.this_week =
             Cardinality(Those(LAMBDA t, d : InWeekOf(today, d)))

\* on a Sunday, with one task due that Sunday and one due the Sunday before,
\* the call has counted one task of this week and one overdue
C23_Witness ==
    /\ pc = "stats"
    /\ today = <<2026, 1, 11>>
    /\ Len(tasks) = 2
    /\ arg.dues = <<<<2026, 1, 11>>, <<2026, 1, 4>>>>
    /\ tasks[2].status.v = "Pendente"
    /\ ret.stats.this_week = 1
    /\ ret.stats.overdue = 1

-----------------------------------------------------------------------------
\* the status values the two edit forms write when the completed box is ticked
DoneMarks == {"Concluído", "Concluída"}

\* C24: is_urgent_today is true exactly for a task with priority Urgente, a
\* status other than completed and due_date equal to today's date; it is
\* false for a task that an edit form marked as completed
C24_UrgentTodayExact ==
    \A i \in 1..Len(tasks) :
        is_urgent_today(tasks[i], today) <=>
            /\ tasks[i].priority.v = "Urgente"
            /\ tasks[i].status.v \notin DoneMarks
            /\ tasks[i].due_date = PStr(strftime(today))

\* C27: after any sequence of UI operations on tasks (create, status
\* selection, inline edit, edit modal, delete) every task of the session has
\* one of the four configured status values and one of the four configured
\* priority values
C27_StatusPriorityConfigured ==
    \A i \in 1..Len(tasks) :
        /\ tasks[i].status.v \in STATUS_CONFIG
        /\ tasks[i].priority.v \in PRIORITY_CONFIG

-----------------------------------------------------------------------------
\* the records of the Tasks worksheet, when get_all_records can read them
TaskRecords ==
    IF get_all_records(sheets["Tasks"]).exc = "none"
    THEN get_all_records(sheets["Tasks"]).val ELSE <<>>

\* a record with an id from which Task.from_dict builds a Task
UsableRecord(r) ==
    /\ "id" \in DOMAIN r
    /\ Task_from_dict(EvalAttachments(r), today, clock).exc = "none"

\* C25: in spreadsheet mode load_tasks skips only the rows whose structure
\* is unusable and returns a Task for every other row of the worksheet
C25_UsableRowsKept ==
    (/\ pc = "loaded" /\ arg.kind = "tasks" /\ use_sheets
     /\ ret.fault = "none"
     /\ get_all_records(sheets["Tasks"]).exc = "none")
    => Len(ret.val) = Cardinality({i \in 1..Len(TaskRecords) : UsableRecord(TaskRecords[i])})

-----------------------------------------------------------------------------
(* A logged-in session and a second session on the same store.  The first   *)
(* session holds the collection that initialize_app loaded.                 *)

\* the task the second session creates; its id is its creation time
OtherTask == [SessionTask(1, "Alta") EXCEPT !.id = PInt(99)]

\* ret.other: the second session has persisted its task
InitShared ==
    /\ today \in Dates
    /\ clock = 1
    /\ use_sheets = FALSE
    /\ current_user \in {DefaultUser} \cup OrdinaryUsers
    /\ data_manager = DataManager_init("")
    /\ categories = PDict(<<>>)
    /\ requests = <<>>
    /\ files = [p \in AllPaths |->
                  IF p = data_manager.file_path THEN FoundTaskFile(1, "Média")
                  ELSE FileAbsent]
    /\ sheets = [w \in Worksheets |-> <<>>]
    /\ tasks = load_tasks_local(files, data_manager.file_path, today, clock, "none").val
    /\ ui_errors = 0
    /\ editing_task_id = 0
    /\ arg = [via |-> "session"]
    /\ ret = [other |-> FALSE]
    /\ pc = "run"

\* the second session, which has just loaded the store, appends its task and
\* runs save_tasks
OtherSessionSave ==
    /\ pc = "run"
    /\ ~ret.other
    /\ files' = [files EXCEPT ![DataPath] =
                    FileJson(JsonArray(Append(StoredTaskRecords,
                                              JsonObject(Task_to_dict(OtherTask)))))]
    /\ ret' = [other |-> TRUE]
    /\ UNCHANGED <<arg, pc, today, clock, use_sheets, current_user, data_manager, tasks,
                   categories, requests, sheets, ui_errors, editing_task_id>>

NextShared ==
    \/ OtherSessionSave
    \/ NewTaskSubmit
    \/ StatusSelect
    \/ PrioritySelect
    \/ DeleteTask
    \/ EditButton
    \/ InlineEditSave
    \/ EditModalSave

SpecShared == InitShared /\ [][NextShared]_vars

\* C26: every task mutation of a session is applied to a collection read
\* from the store during that interaction, so a task that another session
\* persisted before the interaction is still in the store after the rewrite
C26_OtherSessionTaskKept ==
    ret.other =>
        \E i \in 1..Len(StoredTaskRecords) :
            StoredTaskRecords[i] = JsonObject(Task_to_dict(OtherTask))

-----------------------------------------------------------------------------
\* add_update has just returned
AddUpdateStep == ret'.op = "add_update" /\ ret'.n = ret.n + 1

\* C28: after add_update(u) the stored updates are exactly the updates
\* stored before the call, in their order, followed by u, also when the read
\* of the store inside add_update fails and is swallowed
C28_AddKeepsStored ==
    [][AddUpdateStep =>
         /\ ret'.after # <<>>
         /\ SubSeq(ret'.after, 1, Len(ret'.after) - 1)
              = UpdatesView(files, sheets, today, clock', arg.seed, "none")
         /\ ret'.after[Len(ret'.after)].id = ret'.id]_vars

-----------------------------------------------------------------------------
\* save_tasks has just returned False
FailedTaskSave ==
    /\ pc = "ready" /\ pc' = "saved"
    /\ ret'.op = "save_tasks" /\ ret'.saved = "failed"

\* C29: when save_tasks returns False, in either backend, the store still
\* holds the collection it held before the call
C29_FailedSaveKeepsStore ==
    [][FailedTaskSave => (files' = files /\ sheets' = sheets)]_vars

-----------------------------------------------------------------------------
(* main: the user's display name and the privacy filter of the main view *)

\* user_data.get("nome", "Visitante").split()[0], "Gestão" for GESTAO
user_name(user) ==
    IF user = "GESTAO" THEN "Gestão"
    ELSE IF GestoresNome(user) = "" THEN "Visitante"
    ELSE GestoresNome(user)

\* the characters of the display names
NameText(name) ==
    CASE name = "Visitante" -> <<"V", "i", "s", "i", "t", "a", "n", "t", "e">>
      [] name = "Maicon" -> <<"M", "a", "i", "c", "o", "n">>
      [] OTHER -> <<>>

\* user_name in (t.collaborators or [])
InCollaborators(name, c) ==
    /\ c.k = "list"
    /\ \E i \in 1..Len(c.v) : c.v[i] \in {PAtom(name), PStr(NameText(name))}

\* the privacy filter keeps the task t for the identity user
PrivacyShown(t, user) ==
    \/ user \in AdminUsers
    \/ t.responsible = PAtom(user_name(user))
    \/ InCollaborators(user_name(user), t.collaborators)

\* the new-task form of a non-privileged identity has appended a task
CreatedByOrdinary ==
    /\ pc = "run" /\ pc' = "run"
    /\ current_user \notin AdminUsers
    /\ Len(tasks') = Len(tasks) + 1

\* C30: a task created by a non-privileged identity through the new-task
\* form is shown to that identity by the privacy filter of the main view,
\* also when the employee directory has no entry for the identity
C30_CreatorSeesTask ==
    [][CreatedByOrdinary => PrivacyShown(tasks'[Len(tasks')], current_user)]_vars

====
